---- MODULE Spec2Model ----
(***************************************************************************)
(* Model of the call_check dashboard pages: the per-call fetch functions,  *)
(* the bounded parallel fetch of Agents_dashboard.fetch_all_sentiments     *)
(* (ThreadPoolExecutor + as_completed) and the agent dashboard             *)
(* aggregation loop.                                                       *)
(***************************************************************************)
EXTENDS Integers, Sequences, FiniteSets, TLC

VARIABLES
    call_ids,      \* the list passed to fetch_all_sentiments
    remote,        \* call id -> the response the remote endpoint gives for it
    limits,        \* <<max_workers of the 1st invocation, of the 2nd>>
    run,           \* "none" | "first" | "second": which invocation is active
    pc,            \* position of the calling thread inside fetch_all_sentiments
    fstate,        \* future index -> "unsubmitted"|"pending"|"running"|"done"|"yielded"
    foutcome,      \* future index -> what fetch_single returned or raised
    results,       \* the local dict `results`
    calls_made,    \* number of requests.get calls issued in this invocation
    prev,          \* the outcome of the first invocation, once it ended
    key_order,     \* the keys of `results` in insertion order (dict order)
    writes,        \* key -> the threads that assigned results[key], in order
    fetcher,       \* the per-call fetch function under call
    fresp,         \* the response its request gets
    fout,          \* what the call returned or raised
    call_info_map, \* Agents_dashboard: call id -> date and agent name
    sentiment_results, \* Agents_dashboard: what fetch_all_sentiments returned
    dash_pc,       \* Agents_dashboard: position inside the Generate handler
    agg_i,         \* index of the aggregation loop over call_ids
    daily_summary, \* (date, agent) -> counters
    sentiment_not_found_calls, \* list of the calls with status "Not found"
    page,          \* the page whose ThreadPoolExecutor block runs
    rows,          \* Day_wise_analyzer `rows` / No_Incident_Number `final_results`
    variant,       \* which of the summary retry loops runs
    gemini,        \* how the generate_content calls made so far came back
    retries,       \* the loop variable of the retry loop
    api_calls,     \* number of generate_content calls made
    waits,         \* the delays slept so far, in tenths of a second
    retry_ret,     \* what the retry loop returned
    call_ids_input, \* Multi_Call_id_Analyzer: the text typed in, split at ","
    multi_ids,     \* Multi_Call_id_Analyzer: the parsed list call_ids
    multi_i,       \* index of the loop over the ids
    multi_results, \* the list `results`
    multi_log,     \* what the loop did, in order: rows appended, errors shown
    api_trace,     \* Day_wise_analyzer: future index -> the requests process_call made
    paging_fn,     \* the paginated fetch function that runs
    direction_i,   \* index of the `for direction in [...]` loop
    page_num,      \* the local `page` of the paginated fetch
    all_calls,     \* the list the pages are collected in (all_calls / results)
    page_log,      \* the page requests made so far, in order
    paging_ret,    \* what the paginated fetch returned or raised
    poll_fn,       \* the poll_export_status that runs
    poll_requests, \* number of session.get(poll_url) calls made
    poll_last,     \* the last response to a poll request
    poll_ret,      \* what poll_export_status returned or raised
    calls,         \* Agents_dashboard: what fetch_calls gave the handler
    built,         \* Agents_dashboard: the tables built from daily_summary
    session_state, \* st.session_state: key -> value, for the keys that are set
    session_before, \* st.session_state as it was when the button was pressed
    rendered,      \* what the render section showed in this script run
    work_points,   \* compare_with_embeddings: number of work-note points
    call_points,   \* compare_with_embeddings: number of call points
    sim_matrix,    \* <<i, j>> -> cosine similarity, in hundredths
    compare_ret    \* what compare_with_embeddings returned or raised

poolVars == <<call_ids, remote, limits, run, pc, fstate, foutcome, results,
              calls_made, prev, key_order, writes>>

fetchVars == <<fetcher, fresp, fout>>

dashVars == <<call_info_map, sentiment_results, dash_pc, agg_i, daily_summary,
              sentiment_not_found_calls>>

pageVars == <<page, rows, api_trace>>

retryVars == <<variant, gemini, retries, api_calls, waits, retry_ret>>

multiVars == <<call_ids_input, multi_ids, multi_i, multi_results, multi_log>>

pagingVars == <<paging_fn, direction_i, page_num, all_calls, page_log, paging_ret>>

pollVars == <<poll_fn, poll_requests, poll_last, poll_ret>>

dashData == <<call_info_map, sentiment_results, agg_i, daily_summary,
              sentiment_not_found_calls>>

sessionVars == <<calls, built, session_state, session_before, rendered>>

compareVars == <<work_points, call_points, sim_matrix, compare_ret>>

vars == <<poolVars, fetchVars, dashVars, pageVars, retryVars, multiVars,
          pagingVars, pollVars, sessionVars, compareVars>>

----------------------------------------------------------------------------
(* Bounds of the model *)

MaxLen == 3          \* longest list of call ids
MaxLimit == 2        \* small pool sizes tried besides the ones of the pages
MaxPageCount == 3    \* largest pageCount the call index reports
MaxPoints == 3       \* most work-note points / call points compared

(* Pool sizes of the pages *)
DashboardWorkers == 10
DayWiseWorkers == 5

CallIds == {"A", "B"}

PoolLimits == (1..MaxLimit) \cup {DayWiseWorkers, DashboardWorkers}

SeqsUpTo(S, n) == UNION {[1..k -> S] : k \in 0..n}

Range(s) == {s[i] : i \in DOMAIN s}

EmptyMap == [x \in {} |-> x]

Put(m, k, v) == [x \in (DOMAIN m) \cup {k} |-> IF x = k THEN v ELSE m[x]]

----------------------------------------------------------------------------
(* The remote endpoint: what one GET of an AI endpoint can come back with.  *)
(*   ok         2xx, JSON object holding the field with a string value     *)
(*   absent     2xx, JSON object without the field                         *)
(*   null       2xx, JSON object holding the field with value null         *)
(*   timeout    requests.get raises (Timeout / ConnectionError)            *)
(*   http_error non-2xx: raise_for_status raises HTTPError                 *)
(*   bad_json   2xx, body is not JSON: response.json() raises              *)
(*              requests.exceptions.JSONDecodeError                        *)
(*   not_object 2xx, body is JSON but not an object (a list, a string,     *)
(*              null): .get raises AttributeError                          *)

NoneVal == "<None>"

FieldValues == {"positive", "Negative"}

OkResponses == [kind : {"ok"}, val : FieldValues]

OtherKinds == {"absent", "null", "timeout", "http_error", "bad_json", "not_object"}

Responses == OkResponses \cup [kind : OtherKinds, val : {""}]

Val(v) == [tag |-> "return", val |-> v]

Raise(e) == [tag |-> "raise", exc |-> e]

\* requests.get(url); response.raise_for_status(); response.json().get(field, default)
JsonGet(resp, default) ==
    IF resp.kind = "timeout" THEN Raise("Timeout")
    ELSE IF resp.kind = "http_error" THEN Raise("HTTPError")
    ELSE IF resp.kind = "bad_json" THEN Raise("JSONDecodeError")
    ELSE IF resp.kind = "not_object" THEN Raise("AttributeError")
    ELSE IF resp.kind = "absent" THEN Val(default)
    ELSE IF resp.kind = "null" THEN Val(NoneVal)
    ELSE Val(resp.val)

\* the exception classes deriving from requests.exceptions.RequestException
RequestExceptions == {"Timeout", "HTTPError", "JSONDecodeError"}

----------------------------------------------------------------------------
(* Agents_dashboard.get_sentiment *)

Res(s, st) == [tag |-> "return", sentiment |-> s, status |-> st]

\* mutant: a failed fetch is reported with the sentiment "negative"
get_sentiment_FailureIsNegative(resp) ==
    LET r == JsonGet(resp, "unknown") IN
    IF r.tag = "raise"
    THEN IF r.exc \in RequestExceptions THEN Res("negative", "Not found") ELSE r
    ELSE Res(r.val, "OK")

get_sentiment(resp) ==
    LET r == JsonGet(resp, "unknown") IN
    IF r.tag = "raise"
    THEN IF r.exc \in RequestExceptions THEN Res("unknown", "Not found") ELSE r
    ELSE Res(r.val, "OK")

\* fetch_single inside fetch_all_sentiments
fetch_single(cid, rem) ==
    LET r == get_sentiment(rem[cid]) IN
    IF r.tag = "raise" THEN r
    ELSE [tag |-> "return", cid |-> cid, sentiment |-> r.sentiment, status |-> r.status]

----------------------------------------------------------------------------
(* The per-call fetch functions of the other pages.  A function with a      *)
(* single return value returns Val(v); None is NoneVal.                    *)

\* str.capitalize() on the strings that occur
Capitalize(s) ==
    CASE s = "positive" -> "Positive"
      [] s = "Negative" -> "Negative"
      [] s = "unknown"  -> "Unknown"
      [] OTHER          -> s

\* str.lower() on the strings that occur
Lower(s) ==
    CASE s = "Negative" -> "negative"
      [] s = "Positive" -> "positive"
      [] s = "Unknown"  -> "unknown"
      [] OTHER          -> s

\* Python truthiness of a field value
Falsy(v) == v \in {"", NoneVal}

\* Day_wise_analyzer.fetch_sentiment: bare except
DayWise_fetch_sentiment(resp) ==
    LET r == JsonGet(resp, "Unknown") IN
    IF r.tag = "raise" THEN Val("Not Found")
    ELSE IF r.val = NoneVal THEN Val("Not Found")   \* None.capitalize() raises, caught
    ELSE Val(Capitalize(r.val))

\* No_Sentiments_No_Summary.fetch_sentiment: bare except
NoSent_fetch_sentiment(resp) ==
    LET r == JsonGet(resp, "") IN
    IF r.tag = "raise" THEN Val(NoneVal)
    ELSE IF Falsy(r.val) THEN Val(NoneVal)
    ELSE Val(Capitalize(r.val))

\* No_Sentiments_No_Summary.fetch_summary: bare except
NoSent_fetch_summary(resp) ==
    LET r == JsonGet(resp, "") IN
    IF r.tag = "raise" THEN Val(NoneVal)
    ELSE IF Falsy(r.val) THEN Val(NoneVal)
    ELSE Val(r.val)

\* No_Incident_Number.fetch_summary: except Exception
NoInc_fetch_summary(resp) ==
    LET r == JsonGet(resp, "Summary not available.") IN
    IF r.tag = "raise" THEN Val("Summary not available.") ELSE r

\* mutant: a failed request gives the default of the absent field
Multi_get_sentiment_FailureIsUnavailable(resp) ==
    LET r == JsonGet(resp, "Unavailable") IN
    IF r.tag = "raise" THEN Val("Unavailable") ELSE r

\* Multi_Call_id_Analyzer.get_sentiment: except Exception
Multi_get_sentiment(resp) ==
    LET r == JsonGet(resp, "Unavailable") IN
    IF r.tag = "raise" THEN Val("Error") ELSE r

\* Multi_Call_id_Analyzer.get_cloudtalk_summary: no try
Multi_get_cloudtalk_summary(resp) == JsonGet(resp, "Unavailable")

\* Sentiment_analyzer.get_sentiment: no try
SentAn_get_sentiment(resp) == JsonGet(resp, "Unavailable")

\* Agents_dashboard.get_sentiment, its pair as one value
Agents_get_sentiment(resp) ==
    LET r == get_sentiment(resp) IN
    IF r.tag = "raise" THEN r ELSE Val(<<r.sentiment, r.status>>)

Fetchers == {"Agents_dashboard.get_sentiment",
             "Day_wise_analyzer.fetch_sentiment",
             "No_Sentiments_No_Summary.fetch_sentiment",
             "No_Sentiments_No_Summary.fetch_summary",
             "No_Incident_Number.fetch_summary",
             "Multi_Call_id_Analyzer.get_sentiment",
             "Multi_Call_id_Analyzer.get_cloudtalk_summary",
             "Sentiment_analyzer.get_sentiment"}

CallOf(f, resp) ==
    CASE f = "Agents_dashboard.get_sentiment" -> Agents_get_sentiment(resp)
      [] f = "Day_wise_analyzer.fetch_sentiment" -> DayWise_fetch_sentiment(resp)
      [] f = "No_Sentiments_No_Summary.fetch_sentiment" -> NoSent_fetch_sentiment(resp)
      [] f = "No_Sentiments_No_Summary.fetch_summary" -> NoSent_fetch_summary(resp)
      [] f = "No_Incident_Number.fetch_summary" -> NoInc_fetch_summary(resp)
      [] f = "Multi_Call_id_Analyzer.get_sentiment" -> Multi_get_sentiment(resp)
      [] f = "Multi_Call_id_Analyzer.get_cloudtalk_summary" -> Multi_get_cloudtalk_summary(resp)
      [] f = "Sentiment_analyzer.get_sentiment" -> SentAn_get_sentiment(resp)

----------------------------------------------------------------------------
(* fetch_all_sentiments: the pool *)

NoOutcome == [tag |-> "none"]

Futures == DOMAIN call_ids

InState(s) == {i \in Futures : fstate[i] = s}

max_workers == IF run = "second" THEN limits[2] ELSE limits[1]

Terminal == {"returned", "raised"}

\* what the caller of fetch_all_sentiments gets
Outcome == [kind |-> pc, map |-> IF pc = "returned" THEN results ELSE EmptyMap]

Min(S) == CHOOSE x \in S : \A y \in S : x <= y

\* mutant: a thread per submitted task, whatever max_workers says
WorkerAvailableUnbounded == TRUE

\* a free worker thread exists or may still be spawned
WorkerAvailable == Cardinality(InState("running")) < max_workers

\* mutant: a call whose fetch failed is left out of the dict
StoreSkipsNotFound(m, o) ==
    IF o.status = "Not found" THEN m ELSE Put(m, o.cid, <<o.sentiment, o.status>>)

\* mutant: results kept by position in completion order instead of by call id
StoreByCompletionOrder(m, o) ==
    Put(m, Cardinality(DOMAIN m) + 1, <<o.cid, o.sentiment, o.status>>)

\* `results[cid] = (sentiment, status)`
Store(m, o) == Put(m, o.cid, <<o.sentiment, o.status>>)

\* dict insertion order: a new key goes last, an existing key keeps its place
Inserted(order, k) == IF k \in Range(order) THEN order ELSE Append(order, k)

\* the thread that executes an assignment to results[k] is noted
Logged(w, k, thread) == Put(w, k, IF k \in DOMAIN w THEN Append(w[k], thread) ELSE <<thread>>)

\* the pool size of the invocation that starts now
NewLimit == IF run = "none" THEN limits[1] ELSE limits[2]

\* mutant: the pool is sized by the input, ThreadPoolExecutor(max_workers=len(call_ids)),
\* which raises ValueError for an empty list
InvokeSizedByInput ==
    /\ run # "second"
    /\ pc \in Terminal \cup {"idle"}
    /\ run' = IF run = "none" THEN "first" ELSE "second"
    /\ prev' = IF run = "first" THEN Outcome ELSE prev
    /\ results' = EmptyMap
    /\ fstate' = [i \in Futures |-> "unsubmitted"]
    /\ foutcome' = [i \in Futures |-> NoOutcome]
    /\ calls_made' = 0
    /\ key_order' = <<>>
    /\ writes' = EmptyMap
    /\ pc' = IF Futures = {} THEN "raised" ELSE "submit"
    /\ UNCHANGED <<call_ids, remote, limits,
                   fetchVars, dashVars, pageVars, retryVars, multiVars,
                   pagingVars, pollVars, sessionVars, compareVars>>

\* mutant: the ids are submitted in chunks of max_workers and a last, partial
\* chunk is dropped
InvokeDropsPartialChunk ==
    /\ run # "second"
    /\ pc \in Terminal \cup {"idle"}
    /\ run' = IF run = "none" THEN "first" ELSE "second"
    /\ prev' = IF run = "first" THEN Outcome ELSE prev
    /\ results' = EmptyMap
    /\ LET kept == (Len(call_ids) \div NewLimit) * NewLimit IN
        /\ fstate' = [i \in Futures |-> IF i <= kept THEN "unsubmitted" ELSE "yielded"]
        /\ pc' = IF kept = 0 THEN "collect" ELSE "submit"
    /\ foutcome' = [i \in Futures |-> NoOutcome]
    /\ calls_made' = 0
    /\ key_order' = <<>>
    /\ writes' = EmptyMap
    /\ UNCHANGED <<call_ids, remote, limits,
                   fetchVars, dashVars, pageVars, retryVars, multiVars,
                   pagingVars, pollVars, sessionVars, compareVars>>

\* the call: `results = {}` and the creation of the executor
Invoke ==
    /\ run # "second"
    /\ pc \in Terminal \cup {"idle"}
    /\ run' = IF run = "none" THEN "first" ELSE "second"
    /\ prev' = IF run = "first" THEN Outcome ELSE prev
    /\ results' = EmptyMap
    /\ fstate' = [i \in Futures |-> "unsubmitted"]
    /\ foutcome' = [i \in Futures |-> NoOutcome]
    /\ calls_made' = 0
    /\ key_order' = <<>>
    /\ writes' = EmptyMap
    /\ pc' = IF Futures = {} THEN "collect" ELSE "submit"
    /\ UNCHANGED <<call_ids, remote, limits,
                   fetchVars, dashVars, pageVars, retryVars, multiVars,
                   pagingVars, pollVars, sessionVars, compareVars>>

\* one iteration of `[executor.submit(fetch_single, cid) for cid in call_ids]`
Submit ==
    /\ pc = "submit"
    /\ LET i == Min(InState("unsubmitted")) IN
        /\ fstate' = [fstate EXCEPT ![i] = "pending"]
        /\ pc' = IF InState("unsubmitted") = {i} THEN "collect" ELSE "submit"
    /\ UNCHANGED <<call_ids, remote, limits, key_order, writes, run, foutcome, results, calls_made, prev,
                   fetchVars, dashVars, pageVars, retryVars, multiVars,
                   pagingVars, pollVars, sessionVars, compareVars>>

\* a worker thread takes the head of the work queue and issues the request
WorkerStart ==
    /\ pc \in {"submit", "collect", "unwinding"}
    /\ InState("pending") # {}
    /\ WorkerAvailable
    /\ LET i == Min(InState("pending")) IN
        fstate' = [fstate EXCEPT ![i] = "running"]
    /\ calls_made' = calls_made + 1
    /\ UNCHANGED <<call_ids, remote, limits, key_order, writes, run, pc, foutcome, results, prev,
                   fetchVars, dashVars, pageVars, retryVars, multiVars,
                   pagingVars, pollVars, sessionVars, compareVars>>

\* mutant: a task whose fetch failed is put back on the work queue
WorkerFinishRequeuesFailure(i) ==
    /\ fstate[i] = "running"
    /\ LET o == fetch_single(call_ids[i], remote) IN
        IF o.tag = "return" /\ o.status = "Not found"
        THEN /\ fstate' = [fstate EXCEPT ![i] = "pending"]
             /\ UNCHANGED foutcome
        ELSE /\ fstate' = [fstate EXCEPT ![i] = "done"]
             /\ foutcome' = [foutcome EXCEPT ![i] = o]
    /\ UNCHANGED <<call_ids, remote, limits, key_order, writes, run, pc, results, calls_made, prev,
                   fetchVars, dashVars, pageVars, retryVars, multiVars,
                   pagingVars, pollVars, sessionVars, compareVars>>

\* mutant: fetch_single itself assigns results[cid], in its worker thread
WorkerFinishStoresResult(i) ==
    /\ fstate[i] = "running"
    /\ fstate' = [fstate EXCEPT ![i] = "done"]
    /\ LET o == fetch_single(call_ids[i], remote) IN
        /\ foutcome' = [foutcome EXCEPT ![i] = o]
        /\ IF o.tag = "raise"
           THEN UNCHANGED <<results, key_order, writes>>
           ELSE /\ results' = Store(results, o)
                /\ key_order' = Inserted(key_order, o.cid)
                /\ writes' = Logged(writes, o.cid, "worker")
    /\ UNCHANGED <<call_ids, remote, limits, run, pc, calls_made, prev,
                   fetchVars, dashVars, pageVars, retryVars, multiVars,
                   pagingVars, pollVars, sessionVars, compareVars>>

\* the request of a running task comes back and fetch_single ends
WorkerFinish(i) ==
    /\ fstate[i] = "running"
    /\ fstate' = [fstate EXCEPT ![i] = "done"]
    /\ foutcome' = [foutcome EXCEPT ![i] = fetch_single(call_ids[i], remote)]
    /\ UNCHANGED <<call_ids, remote, limits, key_order, writes, run, pc, results, calls_made, prev,
                   fetchVars, dashVars, pageVars, retryVars, multiVars,
                   pagingVars, pollVars, sessionVars, compareVars>>

\* one iteration of `for future in as_completed(futures)`
Collect(i) ==
    /\ pc = "collect"
    /\ fstate[i] = "done"
    /\ fstate' = [fstate EXCEPT ![i] = "yielded"]
    /\ IF foutcome[i].tag = "raise"
       THEN /\ pc' = "unwinding"
            /\ UNCHANGED <<results, key_order, writes>>
       ELSE /\ results' = Store(results, foutcome[i])
            /\ key_order' = Inserted(key_order, foutcome[i].cid)
            /\ writes' = Logged(writes, foutcome[i].cid, "collector")
            /\ UNCHANGED pc
    /\ UNCHANGED <<call_ids, remote, limits, run, foutcome, calls_made, prev,
                   fetchVars, dashVars, pageVars, retryVars, multiVars,
                   pagingVars, pollVars, sessionVars, compareVars>>

\* mutant: `return results` inside the loop, with the executor shut down
\* without waiting (shutdown(wait=False))
ReturnOnFirstResult ==
    /\ pc = "collect"
    /\ Futures = {} \/ InState("yielded") # {}
    /\ pc' = "returned"
    /\ UNCHANGED <<call_ids, remote, limits, key_order, writes, run, fstate, foutcome, results,
                   calls_made, prev,
                   fetchVars, dashVars, pageVars, retryVars, multiVars,
                   pagingVars, pollVars, sessionVars, compareVars>>

\* as_completed is exhausted, the with block ends, `return results`
Return ==
    /\ pc = "collect"
    /\ InState("yielded") = Futures
    /\ pc' = "returned"
    /\ UNCHANGED <<call_ids, remote, limits, key_order, writes, run, fstate, foutcome, results,
                   calls_made, prev,
                   fetchVars, dashVars, pageVars, retryVars, multiVars,
                   pagingVars, pollVars, sessionVars, compareVars>>

\* mutant: the exit cancels the queued tasks and waits for the running ones
\* only (shutdown(wait=True, cancel_futures=True))
UnwindCancelsPending ==
    /\ pc = "unwinding"
    /\ InState("running") = {}
    /\ InState("pending") # {}
    /\ fstate' = [i \in Futures |->
                     IF fstate[i] = "pending" THEN "cancelled" ELSE fstate[i]]
    /\ pc' = "raised"
    /\ UNCHANGED <<call_ids, remote, limits, key_order, writes, run, foutcome, results,
                   calls_made, prev,
                   fetchVars, dashVars, pageVars, retryVars, multiVars,
                   pagingVars, pollVars, sessionVars, compareVars>>

\* future.result() raised: the with block's exit waits for every task
\* (shutdown(wait=True)), then the exception leaves fetch_all_sentiments
Unwind ==
    /\ pc = "unwinding"
    /\ InState("done") \cup InState("yielded") = Futures
    /\ pc' = "raised"
    /\ UNCHANGED <<call_ids, remote, limits, key_order, writes, run, fstate, foutcome, results,
                   calls_made, prev,
                   fetchVars, dashVars, pageVars, retryVars, multiVars,
                   pagingVars, pollVars, sessionVars, compareVars>>

PoolInit(ids, rem, lim) ==
    /\ call_ids = ids
    /\ remote = rem
    /\ limits = lim
    /\ run = "none"
    /\ pc = "idle"
    /\ fstate = [i \in DOMAIN ids |-> "unsubmitted"]
    /\ foutcome = [i \in DOMAIN ids |-> NoOutcome]
    /\ results = EmptyMap
    /\ calls_made = 0
    /\ prev = [kind |-> "none", map |-> EmptyMap]
    /\ key_order = <<>>
    /\ writes = EmptyMap

\* no per-call fetch function under call
FetchIdle ==
    /\ fetcher = "none"
    /\ fresp = [kind |-> "absent", val |-> ""]
    /\ fout = NoOutcome

\* no script run of the dashboard has reached its render section
NothingRendered == [after |-> "idle", shown |-> [tag |-> "nothing"]]

\* the Generate handler of the dashboard is not running
DashIdle ==
    /\ call_info_map = EmptyMap
    /\ sentiment_results = EmptyMap
    /\ dash_pc = "idle"
    /\ agg_i = 0
    /\ daily_summary = EmptyMap
    /\ sentiment_not_found_calls = <<>>

\* no ThreadPoolExecutor block of another page runs
PageIdle ==
    /\ page = "Agents_dashboard"
    /\ rows = <<>>
    /\ api_trace = <<>>

\* no summary retry loop runs
RetryIdle ==
    /\ variant = "none"
    /\ gemini = <<>>
    /\ retries = 0
    /\ api_calls = 0
    /\ waits = <<>>
    /\ retry_ret = NoOutcome

\* the Multi_Call_id_Analyzer handler is not running
MultiIdle ==
    /\ call_ids_input = <<>>
    /\ multi_ids = <<>>
    /\ multi_i = 0
    /\ multi_results = <<>>
    /\ multi_log = <<>>

\* no paginated call fetch runs
PagingIdle ==
    /\ paging_fn = "none"
    /\ direction_i = 0
    /\ page_num = 0
    /\ all_calls = <<>>
    /\ page_log = <<>>
    /\ paging_ret = NoOutcome

\* no poll_export_status runs
PollIdle ==
    /\ poll_fn = "none"
    /\ poll_requests = 0
    /\ poll_last = "none"
    /\ poll_ret = NoOutcome

\* no browser session of the dashboard is followed
SessionIdle ==
    /\ calls = <<>>
    /\ built = NoOutcome
    /\ session_state = EmptyMap
    /\ session_before = EmptyMap
    /\ rendered = NothingRendered

\* no compare_with_embeddings runs
CompareIdle ==
    /\ work_points = 0
    /\ call_points = 0
    /\ sim_matrix = EmptyMap
    /\ compare_ret = NoOutcome

\* nothing but the part under study runs
OthersIdle ==
    /\ PagingIdle
    /\ PollIdle
    /\ CompareIdle

\* the same page invoked twice: one pool size
Init ==
    /\ \E ids \in SeqsUpTo(CallIds, MaxLen) :
       \E rem \in [Range(ids) -> Responses] :
       \E l \in PoolLimits :
          PoolInit(ids, rem, <<l, l>>)
    /\ FetchIdle
    /\ DashIdle
    /\ PageIdle
    /\ RetryIdle
    /\ MultiIdle
    /\ SessionIdle
    /\ OthersIdle

Next ==
    \/ Invoke
    \/ Submit
    \/ WorkerStart
    \/ \E i \in Futures : WorkerFinish(i)
    \/ \E i \in Futures : Collect(i)
    \/ Return
    \/ Unwind

Spec == Init /\ [][Next]_vars

\* the threads are scheduled and every request comes back: each step of the
\* batch that can be taken is taken; a new invocation is up to the user
Fairness ==
    /\ WF_vars(Submit)
    /\ WF_vars(WorkerStart)
    /\ WF_vars(\E i \in Futures : WorkerFinish(i))
    /\ WF_vars(\E i \in Futures : Collect(i))
    /\ WF_vars(Return)
    /\ WF_vars(Unwind)

FairSpec == Spec /\ Fairness

\* the fetcher run with a pool as large as the list, then with a larger one
InitLimits ==
    /\ \E ids \in SeqsUpTo(CallIds, MaxLen) :
       \E rem \in [Range(ids) -> Responses] :
       \E l \in PoolLimits :
          /\ Len(ids) >= 1
          /\ l > Len(ids)
          /\ PoolInit(ids, rem, <<Len(ids), l>>)
    /\ FetchIdle
    /\ DashIdle
    /\ PageIdle
    /\ RetryIdle
    /\ MultiIdle
    /\ SessionIdle
    /\ OthersIdle

SpecLimits == InitLimits /\ [][Next]_vars

----------------------------------------------------------------------------
(* One call of a per-call fetch function *)

\* no batch in progress
PoolIdle == PoolInit(<<>>, EmptyMap, <<1, 1>>)

CallFetcher ==
    /\ fetcher \in Fetchers
    /\ fout = NoOutcome
    /\ fout' = CallOf(fetcher, fresp)
    /\ UNCHANGED <<fetcher, fresp, poolVars, dashVars, pageVars, retryVars, multiVars,
                   pagingVars, pollVars, sessionVars, compareVars>>

InitFetch ==
    /\ fetcher \in Fetchers
    /\ fresp \in Responses
    /\ fout = NoOutcome
    /\ PoolIdle
    /\ DashIdle
    /\ PageIdle
    /\ RetryIdle
    /\ MultiIdle
    /\ SessionIdle
    /\ OthersIdle

NextFetch == CallFetcher

SpecFetch == InitFetch /\ [][NextFetch]_vars

----------------------------------------------------------------------------
(* Agents_dashboard: the Generate handler from the call to                  *)
(* fetch_all_sentiments to the end of the aggregation loop                  *)

Dates == {"2024-05-01", "2024-05-02"}

AgentNames == {"Ann", "Bob"}

\* some task of the batch raises
AnyRaises(ids, rem) == \E id \in Range(ids) : get_sentiment(rem[id]).tag = "raise"

\* the dict fetch_all_sentiments returns when no task raises
SentimentMap(ids, rem) ==
    [id \in Range(ids) |->
        <<get_sentiment(rem[id]).sentiment, get_sentiment(rem[id]).status>>]

\* dict.get(key, default)
DictGet(m, k, default) == IF k \in DOMAIN m THEN m[k] ELSE default

\* the defaultdict's factory
ZeroEntry == [total |-> 0, positive |-> 0, negative |-> 0, neutral |-> 0,
              statuses |-> <<>>]

\* mutant: the chain has no else branch
CountSentimentNoElse(entry, low) ==
    IF low = "positive" THEN [entry EXCEPT !.positive = @ + 1]
    ELSE IF low = "negative" THEN [entry EXCEPT !.negative = @ + 1]
    ELSE entry

\* the if / elif / else on the lowered sentiment
CountSentiment(entry, low) ==
    IF low = "positive" THEN [entry EXCEPT !.positive = @ + 1]
    ELSE IF low = "negative" THEN [entry EXCEPT !.negative = @ + 1]
    ELSE [entry EXCEPT !.neutral = @ + 1]

\* `if status == "Not found": sentiment_not_found_calls.append({...})`
NoteNotFound(list, status, cid, info) ==
    IF status = "Not found"
    THEN Append(list, [call_id |-> cid, agent_name |-> info.agent_name,
                       date |-> info.date])
    ELSE list

\* `sentiment_results = fetch_all_sentiments(call_ids, ...)` and the creation
\* of daily_summary and sentiment_not_found_calls; an exception of the batch
\* goes to the handler's except clause
FetchSentiments ==
    /\ dash_pc = "filtered"
    /\ IF AnyRaises(call_ids, remote)
       THEN /\ dash_pc' = "error"
            /\ UNCHANGED <<sentiment_results, agg_i>>
       ELSE /\ sentiment_results' = SentimentMap(call_ids, remote)
            /\ agg_i' = 1
            /\ dash_pc' = IF call_ids = <<>> THEN "aggregated" ELSE "aggregating"
    /\ daily_summary' = EmptyMap
    /\ sentiment_not_found_calls' = <<>>
    /\ UNCHANGED <<call_info_map, poolVars, fetchVars, pageVars, retryVars, multiVars,
                   pagingVars, pollVars, sessionVars, compareVars>>

\* mutant: the loop runs over the fetched map, `for cid in sentiment_results`,
\* that is in the order in which the results were inserted
AggregatedListIsResultOrder == key_order

\* the list the aggregation loop iterates
AggregatedList == call_ids

\* one iteration of `for cid in call_ids`
AggregateStep ==
    /\ dash_pc = "aggregating"
    /\ LET cid == AggregatedList[agg_i]
           info == call_info_map[cid]
           key == <<info.date, info.agent_name>>
           pair == DictGet(sentiment_results, cid, <<"unknown", "Not found">>)
           sentiment == pair[1]
           status == pair[2]
       IN  IF sentiment = NoneVal
           THEN \* None.lower() raises AttributeError
                /\ dash_pc' = "error"
                /\ UNCHANGED <<agg_i, daily_summary, sentiment_not_found_calls>>
           ELSE LET old == DictGet(daily_summary, key, ZeroEntry)
                    counted == [old EXCEPT !.total = @ + 1,
                                           !.statuses = Append(@, status)]
                IN  /\ daily_summary' =
                          Put(daily_summary, key, CountSentiment(counted, Lower(sentiment)))
                    /\ sentiment_not_found_calls' =
                          NoteNotFound(sentiment_not_found_calls, status, cid, info)
                    /\ agg_i' = agg_i + 1
                    /\ dash_pc' = IF agg_i = Len(AggregatedList) THEN "aggregated"
                                  ELSE "aggregating"
    /\ UNCHANGED <<call_info_map, sentiment_results, poolVars, fetchVars,
                   pageVars, retryVars, multiVars,
                   pagingVars, pollVars, sessionVars, compareVars>>

\* the state after the filter loop built call_ids and call_info_map
InitDashboard ==
    /\ \E ids \in SeqsUpTo(CallIds, MaxLen) :
       \E rem \in [Range(ids) -> Responses] :
          /\ PoolInit(ids, rem, <<DashboardWorkers, DashboardWorkers>>)
          /\ call_info_map \in [Range(ids) -> [date : Dates, agent_name : AgentNames]]
    /\ sentiment_results = EmptyMap
    /\ dash_pc = "filtered"
    /\ agg_i = 0
    /\ daily_summary = EmptyMap
    /\ sentiment_not_found_calls = <<>>
    /\ FetchIdle
    /\ PageIdle
    /\ RetryIdle
    /\ MultiIdle
    /\ SessionIdle
    /\ OthersIdle

NextDashboard ==
    \/ FetchSentiments
    \/ AggregateStep

SpecDashboard == InitDashboard /\ [][NextDashboard]_vars

\* the handler calls fetch_all_sentiments(call_ids, ...), once
CallFetchAll ==
    /\ dash_pc = "filtered"
    /\ run = "none"
    /\ Invoke

\* fetch_all_sentiments ends: its dict is bound to sentiment_results and
\* daily_summary and sentiment_not_found_calls are created, or its exception
\* goes to the handler's except clause
FetchAllEnds ==
    /\ dash_pc = "filtered"
    /\ pc \in Terminal
    /\ IF pc = "raised"
       THEN /\ dash_pc' = "error"
            /\ UNCHANGED <<sentiment_results, agg_i>>
       ELSE /\ sentiment_results' = results
            /\ agg_i' = 1
            /\ dash_pc' = IF call_ids = <<>> THEN "aggregated" ELSE "aggregating"
    /\ daily_summary' = EmptyMap
    /\ sentiment_not_found_calls' = <<>>
    /\ UNCHANGED <<call_info_map, poolVars, fetchVars, pageVars, retryVars, multiVars,
                   pagingVars, pollVars, sessionVars, compareVars>>

\* the handler with the threads of fetch_all_sentiments interleaved
NextDashPool ==
    \/ CallFetchAll
    \/ Submit
    \/ WorkerStart
    \/ \E i \in Futures : WorkerFinish(i)
    \/ \E i \in Futures : Collect(i)
    \/ Return
    \/ Unwind
    \/ FetchAllEnds
    \/ AggregateStep

\* one response per way get_sentiment can end (a non-2xx status and a body
\* that is no JSON end like a timeout)
DashPoolResponses == {r \in Responses : r.kind \notin {"http_error", "bad_json"}}

InitDashPool ==
    /\ \E ids \in SeqsUpTo(CallIds, MaxLen) :
       \E rem \in [Range(ids) -> DashPoolResponses] :
          /\ PoolInit(ids, rem, <<DashboardWorkers, DashboardWorkers>>)
          /\ call_info_map \in [Range(ids) -> [date : Dates, agent_name : AgentNames]]
    /\ sentiment_results = EmptyMap
    /\ dash_pc = "filtered"
    /\ agg_i = 0
    /\ daily_summary = EmptyMap
    /\ sentiment_not_found_calls = <<>>
    /\ FetchIdle
    /\ PageIdle
    /\ RetryIdle
    /\ MultiIdle
    /\ SessionIdle
    /\ OthersIdle

SpecDashPool == InitDashPool /\ [][NextDashPool]_vars

----------------------------------------------------------------------------
(* Agents_dashboard: the whole Generate handler, from the list fetch_calls  *)
(* returned to the three tables                                             *)

\* Cdr.started_at of a call ("" when the field is missing)
StartedAts == {"2024-05-01T09:15:00", "2024-05-01T17:40:00", "2024-05-02T09:15:00"}

\* started_at.split("T")[0]
DateOf(started_at) ==
    CASE started_at = "2024-05-01T09:15:00" -> "2024-05-01"
      [] started_at = "2024-05-01T17:40:00" -> "2024-05-01"
      [] started_at = "2024-05-02T09:15:00" -> "2024-05-02"

\* the order of the date strings
DateRank(d) ==
    CASE d = "2024-05-01" -> 1
      [] d = "2024-05-02" -> 2

\* an Agent object without the key fullname
NoFullname == "<no fullname>"

\* agent.get("fullname", "Unknown")
AgentNameOf(agent) == IF agent = NoFullname THEN "Unknown" ELSE agent

\* the entries of the call index: a missing id, agent or started_at is ""
RawCalls ==
    { [id |-> "A", agent |-> "Ann", started_at |-> "2024-05-01T09:15:00"],
      [id |-> "B", agent |-> "Ann", started_at |-> "2024-05-01T17:40:00"],
      [id |-> "B", agent |-> "Bob", started_at |-> "2024-05-01T09:15:00"],
      [id |-> "A", agent |-> NoFullname, started_at |-> "2024-05-02T09:15:00"],
      [id |-> "", agent |-> "Ann", started_at |-> "2024-05-01T09:15:00"],
      [id |-> "B", agent |-> "", started_at |-> "2024-05-01T09:15:00"],
      [id |-> "A", agent |-> "Bob", started_at |-> ""] }

\* `if not call_id or not agent or not started_at: continue`
Passes(call) == ~(call.id = "" \/ call.agent = "" \/ call.started_at = "")

\* the loop `for call in calls`: the ids in list order, the info of the last
\* call with an id
RECURSIVE FilterLoop(_, _, _)
FilterLoop(cs, ids, info) ==
    IF cs = <<>> THEN [call_ids |-> ids, call_info_map |-> info]
    ELSE LET call == Head(cs) IN
         IF ~Passes(call) THEN FilterLoop(Tail(cs), ids, info)
         ELSE FilterLoop(Tail(cs), Append(ids, call.id),
                         Put(info, call.id,
                             [date |-> DateOf(call.started_at),
                              agent_name |-> AgentNameOf(call.agent)]))

\* the else branch up to the end of the filter loop
FilterCalls ==
    /\ dash_pc = "fetched"
    /\ LET f == FilterLoop(calls, <<>>, EmptyMap) IN
       /\ call_ids' = f.call_ids
       /\ call_info_map' = f.call_info_map
       /\ fstate' = [i \in DOMAIN f.call_ids |-> "unsubmitted"]
       /\ foutcome' = [i \in DOMAIN f.call_ids |-> NoOutcome]
    /\ dash_pc' = "filtered"
    /\ UNCHANGED <<remote, limits, run, pc, results, calls_made, prev, key_order, writes,
                   sentiment_results, agg_i, daily_summary, sentiment_not_found_calls,
                   fetchVars, pageVars, retryVars, multiVars, pagingVars, pollVars,
                   sessionVars, compareVars>>

\* the keys of daily_summary in the order in which the aggregation loop
\* created them: dates by first call, agents of a date by first call
RECURSIVE KeysInOrder(_, _, _)
KeysInOrder(ids, info, order) ==
    IF ids = <<>> THEN order
    ELSE KeysInOrder(Tail(ids), info,
                     Inserted(order, <<info[Head(ids)].date, info[Head(ids)].agent_name>>))

\* daily_summary.items(): the dates in insertion order
DatesInOrder(keys) ==
    LET RECURSIVE Go(_, _)
        Go(ks, ds) == IF ks = <<>> THEN ds ELSE Go(Tail(ks), Inserted(ds, Head(ks)[1]))
    IN  Go(keys, <<>>)

\* agents.items() of a date: its agents in insertion order
AgentsOf(keys, date) ==
    LET of == SelectSeq(keys, LAMBDA k : k[1] = date)
    IN  [i \in DOMAIN of |-> of[i][2]]

\* mutant: the agents are ranked by their total number of calls
TopAgentByTotal(summary, agents, date) ==
    IF agents = <<>> THEN "None"
    ELSE LET best == CHOOSE i \in DOMAIN agents :
                        /\ \A j \in DOMAIN agents :
                              summary[<<date, agents[j]>>].total
                                  <= summary[<<date, agents[i]>>].total
                        /\ \A j \in 1..(i - 1) :
                              summary[<<date, agents[j]>>].total
                                  < summary[<<date, agents[i]>>].total
         IN  agents[best]

\* sorted(agents.items(), key=positive, reverse=True)[0][0]: the sort is
\* stable, so the first agent in insertion order among those with the most
\* positive calls
TopAgent(summary, agents, date) ==
    IF agents = <<>> THEN "None"
    ELSE LET best == CHOOSE i \in DOMAIN agents :
                        /\ \A j \in DOMAIN agents :
                              summary[<<date, agents[j]>>].positive
                                  <= summary[<<date, agents[i]>>].positive
                        /\ \A j \in 1..(i - 1) :
                              summary[<<date, agents[j]>>].positive
                                  < summary[<<date, agents[i]>>].positive
         IN  agents[best]

\* the rows.append(...) of one date
RowsOfDate(summary, keys, date) ==
    LET agents == AgentsOf(keys, date)
        top == TopAgent(summary, agents, date)
    IN  [i \in DOMAIN agents |->
            [Date |-> date, Agent |-> agents[i],
             Total |-> summary[<<date, agents[i]>>].total,
             Positive |-> summary[<<date, agents[i]>>].positive,
             Negative |-> summary[<<date, agents[i]>>].negative,
             Neutral |-> summary[<<date, agents[i]>>].neutral,
             Top |-> IF agents[i] = top THEN "Yes" ELSE ""]]

\* the loop `for date, agents in daily_summary.items()`
AllRows(summary, keys) ==
    LET dates == DatesInOrder(keys)
        RECURSIVE Go(_, _)
        Go(ds, rws) == IF ds = <<>> THEN rws
                       ELSE Go(Tail(ds), rws \o RowsOfDate(summary, keys, Head(ds)))
    IN  Go(dates, <<>>)

\* top_agents_per_day as the frame of (Date, Top Agent) records
TopAgentsPerDay(summary, keys) ==
    LET dates == DatesInOrder(keys)
    IN  [i \in DOMAIN dates |->
            [Date |-> dates[i],
             TopAgent |-> TopAgent(summary, AgentsOf(keys, dates[i]), dates[i])]]

\* row a sorts strictly before row b: Date ascending, Positive descending
SortsBefore(a, b) ==
    \/ DateRank(a.Date) < DateRank(b.Date)
    \/ a.Date = b.Date /\ a.Positive > b.Positive

\* df.sort_values(by=["Date", "Positive"], ascending=[True, False]); rows
\* that compare equal keep their order
SortValues(rws) ==
    LET Insert(sorted, r) ==
            LET k == Cardinality({i \in DOMAIN sorted : ~SortsBefore(r, sorted[i])})
            IN  SubSeq(sorted, 1, k) \o <<r>> \o SubSeq(sorted, k + 1, Len(sorted))
        RECURSIVE Go(_, _)
        Go(rest, sorted) == IF rest = <<>> THEN sorted
                            ELSE Go(Tail(rest), Insert(sorted, Head(rest)))
    IN  Go(rws, <<>>)

\* the three frames; a frame made from no rows has no column Date, and
\* sort_values raises KeyError
Tables(summary, keys, not_found) ==
    LET rws == AllRows(summary, keys) IN
    IF rws = <<>> THEN Raise("KeyError")
    ELSE Val([df |-> SortValues(rws), not_found_df |-> not_found,
              top_agents_df |-> TopAgentsPerDay(summary, keys)])

\* mutant: the except clause marks the dashboard as not generated
ExceptClauseResets(state) == [state EXCEPT !["generated"] = FALSE]

\* `except Exception as e: st.error(...)`: the session state is not touched
ExceptClause(state) == state

\* from the end of the aggregation loop to the three frames
BuildTables ==
    /\ dash_pc = "aggregated"
    /\ built' = Tables(daily_summary, KeysInOrder(call_ids, call_info_map, <<>>),
                       sentiment_not_found_calls)
    /\ IF built'.tag = "raise"
       THEN /\ dash_pc' = "error"
            /\ session_state' = ExceptClause(session_state)
       ELSE /\ dash_pc' = "built"
            /\ UNCHANGED session_state
    /\ UNCHANGED <<calls, session_before, rendered,
                   call_info_map, sentiment_results, agg_i, daily_summary,
                   sentiment_not_found_calls, poolVars, fetchVars, pageVars, retryVars,
                   multiVars, pagingVars, pollVars, compareVars>>

\* the sentiment responses a run of the handler can meet
GenerateResponses == DashPoolResponses

\* the handler after fetch_calls returned a list
InitGenerate ==
    /\ calls \in SeqsUpTo(RawCalls, MaxLen)
    /\ \E rem \in [Range(FilterLoop(calls, <<>>, EmptyMap).call_ids) -> GenerateResponses] :
          PoolInit(<<>>, rem, <<DashboardWorkers, DashboardWorkers>>)
    /\ call_info_map = EmptyMap
    /\ sentiment_results = EmptyMap
    /\ dash_pc = IF calls = <<>> THEN "no_calls" ELSE "fetched"
    /\ agg_i = 0
    /\ daily_summary = EmptyMap
    /\ sentiment_not_found_calls = <<>>
    /\ built = NoOutcome
    /\ session_state = [x \in {"generated"} |-> FALSE]
    /\ session_before = session_state
    /\ rendered = NothingRendered
    /\ FetchIdle
    /\ PageIdle
    /\ RetryIdle
    /\ MultiIdle
    /\ OthersIdle

NextGenerate ==
    \/ FilterCalls
    \/ FetchSentiments
    \/ AggregateStep
    \/ BuildTables

SpecGenerate == InitGenerate /\ [][NextGenerate]_vars

----------------------------------------------------------------------------
(* Agents_dashboard: the session.  The script runs from top to bottom on    *)
(* every interaction; st.session_state outlives the runs.                   *)

\* the calls and sentiment responses the runs of a session meet
SessionCalls ==
    { [id |-> "A", agent |-> "Ann", started_at |-> "2024-05-01T09:15:00"],
      [id |-> "B", agent |-> "Bob", started_at |-> "2024-05-01T09:15:00"],
      [id |-> "", agent |-> "Ann", started_at |-> "2024-05-01T09:15:00"] }

SessionResponses ==
    {r \in Responses : r.kind \in {"timeout", "not_object", "null"} \/ r.val = "positive"}

\* what fetch_calls gives: requests.get or raise_for_status raises, or the list
FetchCallsOutcomes ==
    {Raise("HTTPError")} \cup {Val(cs) : cs \in SeqsUpTo(SessionCalls, MaxLen)}

\* the session-state keys the handler assigns
TableKeys == {"df", "not_found_df", "top_agents_df"}

\* mutant: generated is assigned before the tables
StoreOrderGeneratedFirst == <<"generated", "df", "not_found_df", "top_agents_df">>

\* the four assignments to st.session_state, in program order
StoreOrder == <<"df", "not_found_df", "top_agents_df", "generated">>

\* the handler's position before each assignment and after the last
StorePc == <<"built", "stored_1", "stored_2", "stored_3", "done">>

\* the environment of a waiting session: no request is answered
NoRemote == [id \in CallIds |-> [kind |-> "timeout", val |-> ""]]

\* the button is pressed in a waiting session: the script starts again,
\* `calls = fetch_calls(...)` and the test `if not calls`
PressGenerate ==
    /\ dash_pc = "idle"
    /\ session_before' = session_state
    /\ \E out \in FetchCallsOutcomes :
          IF out.tag = "raise"
          THEN /\ calls' = <<>>
               /\ dash_pc' = "error"
               /\ session_state' = ExceptClause(session_state)
               /\ remote' = NoRemote
          ELSE /\ calls' = out.val
               /\ dash_pc' = IF out.val = <<>> THEN "no_calls" ELSE "fetched"
               /\ UNCHANGED session_state
               /\ remote' \in {rem \in [CallIds -> SessionResponses \cup {NoRemote["A"]}] :
                                 \A id \in CallIds :
                                    IF \E i \in DOMAIN out.val : out.val[i].id = id
                                    THEN rem[id] \in SessionResponses
                                    ELSE rem[id] = NoRemote[id]}
    /\ UNCHANGED <<call_ids, limits, run, pc, fstate, foutcome, results, calls_made, prev,
                   key_order, writes, built, rendered, dashData,
                   fetchVars, pageVars, retryVars, multiVars, pagingVars, pollVars,
                   compareVars>>

\* the k-th assignment `st.session_state.<key> = ...`
StoreStep(k) ==
    /\ dash_pc = StorePc[k]
    /\ session_state' =
          Put(session_state, StoreOrder[k],
              IF StoreOrder[k] = "generated" THEN TRUE ELSE built.val[StoreOrder[k]])
    /\ dash_pc' = StorePc[k + 1]
    /\ UNCHANGED <<calls, built, session_before, rendered, poolVars, fetchVars, dashData,
                   pageVars, retryVars, multiVars, pagingVars, pollVars, compareVars>>

\* what `if st.session_state.generated:` puts on the page; reading a key that
\* was never assigned raises AttributeError
Shown(state) ==
    IF ~state["generated"] THEN [tag |-> "nothing"]
    ELSE IF ~(TableKeys \subseteq DOMAIN state) THEN [tag |-> "crash"]
    ELSE [tag |-> "tables", df |-> state["df"],
          top_agents_df |-> state["top_agents_df"],
          not_found_df |-> state["not_found_df"]]

\* the render section at the end of a script run: after the handler, or alone
\* when the script reruns without the button; the run ends and its local
\* variables are gone, st.session_state stays (session_before, the session
\* state at the start of the run, follows it)
Render ==
    /\ dash_pc \in {"idle", "done", "error", "no_calls"}
    /\ rendered' = [after |-> dash_pc, shown |-> Shown(session_state)]
    /\ dash_pc' = "idle"
    /\ calls' = <<>>
    /\ built' = NoOutcome
    /\ remote' = NoRemote
    /\ call_ids' = <<>>
    /\ fstate' = <<>>
    /\ foutcome' = <<>>
    /\ call_info_map' = EmptyMap
    /\ sentiment_results' = EmptyMap
    /\ agg_i' = 0
    /\ daily_summary' = EmptyMap
    /\ sentiment_not_found_calls' = <<>>
    /\ session_before' = session_state
    /\ UNCHANGED <<session_state, limits, run, pc, results, calls_made,
                   prev, key_order, writes, fetchVars, pageVars, retryVars, multiVars,
                   pagingVars, pollVars, compareVars>>

\* a new session: `if "generated" not in st.session_state: ... = False`
InitSession ==
    /\ PoolInit(<<>>, NoRemote, <<DashboardWorkers, DashboardWorkers>>)
    /\ DashIdle
    /\ calls = <<>>
    /\ built = NoOutcome
    /\ session_state = [x \in {"generated"} |-> FALSE]
    /\ session_before = session_state
    /\ rendered = NothingRendered
    /\ FetchIdle
    /\ PageIdle
    /\ RetryIdle
    /\ MultiIdle
    /\ OthersIdle

NextSession ==
    \/ PressGenerate
    \/ FilterCalls
    \/ FetchSentiments
    \/ AggregateStep
    \/ BuildTables
    \/ \E k \in DOMAIN StoreOrder : StoreStep(k)
    \/ Render

SpecSession == InitSession /\ [][NextSession]_vars

----------------------------------------------------------------------------
(* The summary retry loops: call.get_summary,                               *)
(* Multi_Call_id_Analyzer.get_summary, Day_wise_analyzer.generate_summary.  *)
(* Times are in tenths of a second.                                         *)

\* the default of the parameter; no caller passes another value
max_retries == 5

\* the cap of Day_wise_analyzer.generate_summary, in seconds
CapSeconds == 30

RetryLoops == {"call.get_summary", "Multi_Call_id_Analyzer.get_summary",
               "Day_wise_analyzer.generate_summary"}

\* generate_content(prompt) followed by response.text: the call raises, the
\* response is blocked (response.text raises ValueError), or there is a text
GeminiReplies == {"raises", "blocked", "Summary", " Summary\n"}

GeminiFails(reply) == reply \in {"raises", "blocked"}

\* str.strip() on the texts that occur
Strip(t) == IF t = " Summary\n" THEN "Summary" ELSE t

\* random.random(): a value of [0, 1)
Jitters == {0, 5, 9}

\* the string returned when every attempt failed
ErrorString(v) ==
    IF v = "Multi_Call_id_Analyzer.get_summary"
    THEN "Error: Gemini failed to generate summary after multiple attempts."
    ELSE "Error: Gemini failed to generate summary."

\* mutant: the delay grows linearly, 2 * retries + random.random()
BackoffLinear(v, k, j) == 10 * (2 * k) + j

\* `wait = 2 ** retries + random.random()`, with min(..., 30) in Day_wise
Backoff(v, k, j) ==
    LET w == 10 * (2 ^ k) + j IN
    IF v = "Day_wise_analyzer.generate_summary"
    THEN (IF w < 10 * CapSeconds THEN w ELSE 10 * CapSeconds)
    ELSE w

\* mutant: `while retries <= max_retries`
MayRetryInclusive(r) == r <= max_retries

\* `while retries < max_retries`
MayRetry(r) == r < max_retries

\* one iteration of the while loop: the call, then either the return of the
\* stripped text or the except clause (wait, sleep, retries += 1)
Attempt ==
    /\ variant \in RetryLoops
    /\ retry_ret = NoOutcome
    /\ MayRetry(retries)
    /\ \E reply \in GeminiReplies :
          /\ gemini' = Append(gemini, reply)
          /\ api_calls' = api_calls + 1
          /\ IF GeminiFails(reply)
             THEN /\ \E j \in Jitters : waits' = Append(waits, Backoff(variant, retries, j))
                  /\ retries' = retries + 1
                  /\ UNCHANGED retry_ret
             ELSE /\ retry_ret' = Val(Strip(reply))
                  /\ UNCHANGED <<waits, retries>>
    /\ UNCHANGED <<variant, poolVars, fetchVars, dashVars, pageVars, multiVars,
                   pagingVars, pollVars, sessionVars, compareVars>>

\* the loop condition fails: the fixed string is returned
GiveUp ==
    /\ variant \in RetryLoops
    /\ retry_ret = NoOutcome
    /\ ~MayRetry(retries)
    /\ retry_ret' = Val(ErrorString(variant))
    /\ UNCHANGED <<variant, gemini, retries, api_calls, waits,
                   poolVars, fetchVars, dashVars, pageVars, multiVars,
                   pagingVars, pollVars, sessionVars, compareVars>>

InitRetry ==
    /\ variant \in RetryLoops
    /\ gemini = <<>>
    /\ retries = 0
    /\ api_calls = 0
    /\ waits = <<>>
    /\ retry_ret = NoOutcome
    /\ PoolIdle
    /\ FetchIdle
    /\ DashIdle
    /\ PageIdle
    /\ MultiIdle
    /\ SessionIdle
    /\ OthersIdle

NextRetry ==
    \/ Attempt
    \/ GiveUp

SpecRetry == InitRetry /\ [][NextRetry]_vars

----------------------------------------------------------------------------
(* The ThreadPoolExecutor blocks of Day_wise_analyzer (process_call per     *)
(* call, rows) and of No_Incident_Number (fetch_summary per filtered item,  *)
(* final_results).  Future i stands for the i-th call / item; `remote`      *)
(* maps a call id to what the requests made for it come back with.          *)

NoIncWorkers == 10

Pages == {"Day_wise_analyzer", "No_Incident_Number"}

PageWorkers(pg) == IF pg = "Day_wise_analyzer" THEN DayWiseWorkers ELSE NoIncWorkers

\* Day_wise_analyzer.extract_incident on the Notes of a call: a note with an
\* incident number, or a note whose text is null (re.search(..., None))
extract_incident(notes) ==
    IF notes = "null_note" THEN Raise("TypeError") ELSE Val("INC123")

\* Day_wise_analyzer.fetch_transcript: no try
DayWise_fetch_transcript(t) ==
    IF t = "ok" THEN Val("Agent: hello") ELSE Raise("Timeout")

\* Day_wise_analyzer.generate_summary as a whole: the text, or the error
\* string once every attempt failed
generate_summary(g) ==
    IF g = "ok" THEN "Summary" ELSE ErrorString("Day_wise_analyzer.generate_summary")

\* mutant: fetch_transcript is called outside of a try
process_call_TranscriptNotGuarded(cid, env) ==
    LET inc == extract_incident(env.notes)
        sentiment == DayWise_fetch_sentiment(env.sentiment).val
        t == DayWise_fetch_transcript(env.transcript)
    IN  IF inc.tag = "raise" THEN inc
        ELSE IF t.tag = "raise" THEN t
        ELSE Val([call_id |-> cid, incident |-> inc.val, sentiment |-> sentiment,
                  summary |-> generate_summary(env.gemini), transcript |-> t.val])

\* Day_wise_analyzer.process_call
process_call(cid, env) ==
    LET inc == extract_incident(env.notes)
        sentiment == DayWise_fetch_sentiment(env.sentiment).val
        t == DayWise_fetch_transcript(env.transcript)
        transcript == IF t.tag = "raise" THEN "Transcript not available." ELSE t.val
        summary == IF transcript # "Transcript not available."
                   THEN generate_summary(env.gemini)
                   ELSE "Summary not available."
    IN  IF inc.tag = "raise" THEN inc
        ELSE Val([call_id |-> cid, incident |-> inc.val, sentiment |-> sentiment,
                  summary |-> summary, transcript |-> transcript])

\* mutant: generate_summary is called whatever the transcript fetch gave
process_call_requests_AlwaysSummarises(env) ==
    IF extract_incident(env.notes).tag = "raise" THEN <<>>
    ELSE <<"sentiment", "transcript", "summary">>

\* the requests process_call makes, in order: fetch_sentiment,
\* fetch_transcript, and generate_summary unless the transcript is the
\* "Transcript not available." of the except clause
process_call_requests(env) ==
    IF extract_incident(env.notes).tag = "raise" THEN <<>>
    ELSE LET t == DayWise_fetch_transcript(env.transcript)
             transcript == IF t.tag = "raise" THEN "Transcript not available." ELSE t.val
         IN  <<"sentiment", "transcript">> \o
             (IF transcript # "Transcript not available." THEN <<"summary">> ELSE <<>>)

\* what the requests made for one call of Day_wise_analyzer come back with
DayWiseEnvs ==
    {e \in [notes : {"inc", "null_note"},
            sentiment : {r \in Responses : r.kind = "timeout" \/ r.val = "positive"},
            transcript : {"ok", "timeout"},
            gemini : {"ok", "fails"}] :
        e.transcript = "timeout" => e.gemini = "ok"}

PageEnvs(pg) == IF pg = "Day_wise_analyzer" THEN DayWiseEnvs ELSE Responses

\* the with block of the page is entered, once
StartBlock ==
    /\ page \in Pages
    /\ run = "none"
    /\ Invoke

\* process_call ends in its worker thread
DayWise_WorkerFinish(i) ==
    /\ page = "Day_wise_analyzer"
    /\ fstate[i] = "running"
    /\ fstate' = [fstate EXCEPT ![i] = "done"]
    /\ foutcome' = [foutcome EXCEPT ![i] = process_call(call_ids[i], remote[call_ids[i]])]
    /\ api_trace' = Put(api_trace, i, process_call_requests(remote[call_ids[i]]))
    /\ UNCHANGED <<call_ids, remote, limits, key_order, writes, run, pc, results,
                   calls_made, prev, page, rows,
                   fetchVars, dashVars, retryVars, multiVars,
                   pagingVars, pollVars, sessionVars, compareVars>>

\* `for future in as_completed(future_to_call): rows.append(future.result())`
DayWise_Collect(i) ==
    /\ page = "Day_wise_analyzer"
    /\ pc = "collect"
    /\ fstate[i] = "done"
    /\ fstate' = [fstate EXCEPT ![i] = "yielded"]
    /\ IF foutcome[i].tag = "raise"
       THEN /\ pc' = "unwinding"
            /\ UNCHANGED rows
       ELSE /\ rows' = Append(rows, foutcome[i].val)
            /\ UNCHANGED pc
    /\ UNCHANGED <<call_ids, remote, limits, key_order, writes, run, foutcome,
                   results, calls_made, prev, page, api_trace,
                   fetchVars, dashVars, retryVars, multiVars,
                   pagingVars, pollVars, sessionVars, compareVars>>

\* mutant: the item is taken by position, filtered_results[len(final_results)],
\* instead of from future_to_call
ItemOfByPosition(i, n) == n + 1

\* `item = future_to_call[future]`: the item the future was submitted for
ItemOf(i, n) == i

\* fetch_summary ends in its worker thread
NoInc_WorkerFinish(i) ==
    /\ page = "No_Incident_Number"
    /\ fstate[i] = "running"
    /\ fstate' = [fstate EXCEPT ![i] = "done"]
    /\ foutcome' = [foutcome EXCEPT ![i] = NoInc_fetch_summary(remote[call_ids[i]])]
    /\ UNCHANGED <<call_ids, remote, limits, key_order, writes, run, pc, results,
                   calls_made, prev,
                   fetchVars, dashVars, pageVars, retryVars, multiVars,
                   pagingVars, pollVars, sessionVars, compareVars>>

\* one iteration of `for future in as_completed(future_to_call)`:
\* item["Summary"] = summary; final_results.append(item)
NoInc_Collect(i) ==
    /\ page = "No_Incident_Number"
    /\ pc = "collect"
    /\ fstate[i] = "done"
    /\ fstate' = [fstate EXCEPT ![i] = "yielded"]
    /\ IF foutcome[i].tag = "raise"
       THEN /\ pc' = "unwinding"
            /\ UNCHANGED rows
       ELSE /\ LET item == ItemOf(i, Len(rows)) IN
                rows' = Append(rows, [item |-> item, call_id |-> call_ids[item],
                                      summary |-> foutcome[i].val])
            /\ UNCHANGED pc
    /\ UNCHANGED <<call_ids, remote, limits, key_order, writes, run, foutcome,
                   results, calls_made, prev, page, api_trace,
                   fetchVars, dashVars, retryVars, multiVars,
                   pagingVars, pollVars, sessionVars, compareVars>>

\* the state before the with block: the calls are fetched (Day_wise) or
\* filtered (No_Incident_Number) and the list of rows is empty
InitPages ==
    /\ page \in Pages
    /\ rows = <<>>
    /\ api_trace = <<>>
    /\ \E ids \in SeqsUpTo(CallIds, MaxLen) :
       \E rem \in [Range(ids) -> PageEnvs(page)] :
          PoolInit(ids, rem, <<PageWorkers(page), PageWorkers(page)>>)
    /\ FetchIdle
    /\ DashIdle
    /\ RetryIdle
    /\ MultiIdle
    /\ SessionIdle
    /\ OthersIdle

NextPages ==
    \/ StartBlock
    \/ Submit
    \/ WorkerStart
    \/ \E i \in Futures : DayWise_WorkerFinish(i)
    \/ \E i \in Futures : DayWise_Collect(i)
    \/ \E i \in Futures : NoInc_WorkerFinish(i)
    \/ \E i \in Futures : NoInc_Collect(i)
    \/ Return
    \/ Unwind

SpecPages == InitPages /\ [][NextPages]_vars

----------------------------------------------------------------------------
(* Multi_Call_id_Analyzer: the loop of the Analyze Calls handler *)

\* the pieces of the typed text between the commas
InputPieces == {"A", " B ", " ", ""}

\* str.strip() on the pieces that occur
StripPiece(c) == IF c = " B " THEN "B" ELSE IF c = " " THEN "" ELSE c

\* `[c.strip() for c in call_ids_input.split(",") if c.strip()]`
RECURSIVE ParseIds(_)
ParseIds(pieces) ==
    IF pieces = <<>> THEN <<>>
    ELSE LET rest == ParseIds(Tail(pieces))
             c == StripPiece(Head(pieces))
         IN  IF c = "" THEN rest ELSE <<c>> \o rest

\* get_call_info / fetch_transcript: no try; the request succeeds or raises
MultiRequest(r) == IF r = "ok" THEN Val("ok") ELSE Raise("HTTPError")

\* the responses of the sentiment and of the summary endpoint that are told
\* apart here
MultiResponses == {r \in Responses : r.kind \in {"timeout", "null"} \/ r.val = "positive"}

\* the body of the try block for one call id: the four fetches, the Gemini
\* summary and the row appended to results
AnalyzeCall(cid, info, tr, sent, ct, g) ==
    LET i == MultiRequest(info)
        t == MultiRequest(tr)
        sentiment == Multi_get_sentiment(sent).val
        ct_summary == Multi_get_cloudtalk_summary(ct)
        ai_summary == IF g = "ok" THEN "Summary"
                      ELSE ErrorString("Multi_Call_id_Analyzer.get_summary")
    IN  IF i.tag = "raise" THEN i
        ELSE IF t.tag = "raise" THEN t
        ELSE IF ct_summary.tag = "raise" THEN ct_summary
        ELSE Val([call_id |-> cid,
                  sentiment |-> IF Falsy(sentiment) THEN "Unavailable"
                                ELSE Capitalize(sentiment),
                  ct_summary |-> ct_summary.val,
                  ai_summary |-> ai_summary])

\* mutant: the try is around the loop: the first error ends it
AfterCallAbortsOnError(i, failed) == IF failed THEN Len(multi_ids) + 1 ELSE i + 1

\* the loop goes on to the next id, after a row as after an error
AfterCall(i, failed) == i + 1

\* one iteration of `for call_id in call_ids`
ProcessCallId ==
    /\ multi_i \in DOMAIN multi_ids
    /\ \E info \in {"ok", "http_error"}, tr \in {"ok", "http_error"},
          sent \in MultiResponses, ct \in MultiResponses, g \in {"ok", "fails"} :
          LET cid == multi_ids[multi_i]
              out == AnalyzeCall(cid, info, tr, sent, ct, g)
          IN  /\ IF out.tag = "raise"
                 THEN \* except Exception as e: st.error(...)
                      /\ multi_log' = Append(multi_log, [call_id |-> cid, kind |-> "error"])
                      /\ UNCHANGED multi_results
                 ELSE /\ multi_results' = Append(multi_results, out.val)
                      /\ multi_log' = Append(multi_log, [call_id |-> cid, kind |-> "row"])
              /\ multi_i' = AfterCall(multi_i, out.tag = "raise")
    /\ UNCHANGED <<call_ids_input, multi_ids,
                   poolVars, fetchVars, dashVars, pageVars, retryVars,
                   pagingVars, pollVars, sessionVars, compareVars>>

\* the button is pressed: call_ids is parsed and results = []
InitMulti ==
    /\ call_ids_input \in SeqsUpTo(InputPieces, MaxLen)
    /\ multi_ids = ParseIds(call_ids_input)
    /\ multi_i = 1
    /\ multi_results = <<>>
    /\ multi_log = <<>>
    /\ PoolIdle
    /\ FetchIdle
    /\ DashIdle
    /\ PageIdle
    /\ RetryIdle
    /\ SessionIdle
    /\ OthersIdle

NextMulti == ProcessCallId

SpecMulti == InitMulti /\ [][NextMulti]_vars

----------------------------------------------------------------------------
(* The paginated call fetch: fetch_calls (Agents_dashboard, and              *)
(* fetch_calls_for_date of Sentiment_analyzer) and fetch_calls_all_types     *)
(* (Day_wise_analyzer, No_Incident_Number, No_Sentiments_No_Summary).        *)

PagingFns == {"fetch_calls", "fetch_calls_all_types"}

\* `for direction in ["incoming", "outgoing"]`; fetch_calls has no such loop
Directions(fn) ==
    IF fn = "fetch_calls_all_types" THEN <<"incoming", "outgoing">> ELSE <<"answered">>

\* what one GET of calls/index.json comes back with: a 2xx whose responseData
\* may lack pageCount (written -1) and data, a non-2xx, no answer, or a 2xx
\* whose responseData is null (None.get raises AttributeError)
PageResponses ==
    [kind : {"ok"}, page_count : (-1)..MaxPageCount, has_data : BOOLEAN]
    \cup [kind : {"http_error", "timeout", "not_object"}, page_count : {-1},
          has_data : {FALSE}]

\* data.get("pageCount", 1)
PageCountOf(resp) == IF resp.page_count = -1 THEN 1 ELSE resp.page_count

\* data.get("data", []): the calls of page p of direction d
BatchOf(resp, d, p) ==
    IF resp.has_data THEN <<[direction |-> d, page |-> p]>> ELSE <<>>

\* requests.get; raise_for_status; .json().get("responseData", {})
PageRequest(resp) ==
    IF resp.kind = "ok" THEN Val(resp)
    ELSE IF resp.kind = "http_error" THEN Raise("HTTPError")
    ELSE IF resp.kind = "timeout" THEN Raise("Timeout")
    ELSE Raise("AttributeError")

\* mutant: `page = 1` stands before the loop over the directions
FirstPageCarriesOn(last) == last

\* `page = 1` at the start of each direction
FirstPage(last) == 1

\* mutant: a failed page is skipped and what was collected is returned
PageFailureReturnsPartial(e, collected) == Val(collected)

\* nothing catches the exception of a page request: it leaves the function
PageFailure(e, collected) == e

\* one iteration of `while True`: the request of the page, the extension of
\* the list, and either `page += 1`, or the break followed by the next
\* direction or by the return
FetchPage ==
    /\ paging_fn \in PagingFns
    /\ paging_ret = NoOutcome
    /\ \E resp \in PageResponses :
          LET d == Directions(paging_fn)[direction_i]
              r == PageRequest(resp)
              batch == BatchOf(resp, d, page_num)
              entry == [direction |-> d, page |-> page_num, kind |-> resp.kind,
                        page_count |-> PageCountOf(resp), batch |-> batch]
          IN  /\ page_log' = Append(page_log, entry)
              /\ IF r.tag = "raise"
                 THEN /\ paging_ret' = PageFailure(r, all_calls)
                      /\ UNCHANGED <<all_calls, page_num, direction_i>>
                 ELSE /\ all_calls' = all_calls \o batch
                      /\ IF page_num >= PageCountOf(resp)
                         THEN IF direction_i = Len(Directions(paging_fn))
                              THEN /\ paging_ret' = Val(all_calls')
                                   /\ UNCHANGED <<page_num, direction_i>>
                              ELSE /\ direction_i' = direction_i + 1
                                   /\ page_num' = FirstPage(page_num)
                                   /\ UNCHANGED paging_ret
                         ELSE /\ page_num' = page_num + 1
                              /\ UNCHANGED <<paging_ret, direction_i>>
    /\ UNCHANGED <<paging_fn, poolVars, fetchVars, dashVars, pageVars, retryVars,
                   multiVars, pollVars, sessionVars, compareVars>>

\* the function is entered: the list is empty and page = 1
InitPaging ==
    /\ paging_fn \in PagingFns
    /\ direction_i = 1
    /\ page_num = 1
    /\ all_calls = <<>>
    /\ page_log = <<>>
    /\ paging_ret = NoOutcome
    /\ PoolIdle
    /\ FetchIdle
    /\ DashIdle
    /\ PageIdle
    /\ RetryIdle
    /\ MultiIdle
    /\ SessionIdle
    /\ PollIdle
    /\ CompareIdle

NextPaging == FetchPage

SpecPaging == InitPaging /\ [][NextPaging]_vars

----------------------------------------------------------------------------
(* poll_export_status (Call_vs_incident, Incident_Summarizer and the other  *)
(* incident pages): the loop that polls the export for its sys_id            *)

\* `for _ in range(20)`
PollAttempts == 20

PollFns == {"Call_vs_incident.poll_export_status",
            "Incident_Summarizer.poll_export_status"}

\* what session.get(poll_url) comes back with: a 200 whose text holds a
\* sys_id, a 200 without one, another status with or without a sys_id in the
\* text, or an exception of the request
PollResponses ==
    [status : {200, 500}, sys_id : {"none", "0a1b", "2c3d"}, failed : {FALSE}]
    \cup [status : {0}, sys_id : {"none"}, failed : {TRUE}]

\* mutant: the status code is not looked at
FoundSysIdAnyStatus(resp) == resp.sys_id # "none"

\* `response.status_code == 200` and the regular expression matches
FoundSysId(resp) == resp.status = 200 /\ resp.sys_id # "none"

\* one iteration of the for loop: the request, then the return of the sys_id
\* or time.sleep(2)
Poll ==
    /\ poll_fn \in PollFns
    /\ poll_ret = NoOutcome
    /\ poll_requests < PollAttempts
    /\ \E resp \in PollResponses :
          /\ poll_last' = resp
          /\ poll_ret' = IF resp.failed THEN Raise("ConnectionError")
                         ELSE IF FoundSysId(resp) THEN Val(resp.sys_id)
                         ELSE NoOutcome
    /\ poll_requests' = poll_requests + 1
    /\ UNCHANGED <<poll_fn, poolVars, fetchVars, dashVars, pageVars, retryVars,
                   multiVars, pagingVars, sessionVars, compareVars>>

\* the range is exhausted: raise Exception("Failed to extract sys_id.")
PollGiveUp ==
    /\ poll_fn \in PollFns
    /\ poll_ret = NoOutcome
    /\ poll_requests >= PollAttempts
    /\ poll_ret' = Raise("Failed to extract sys_id.")
    /\ UNCHANGED <<poll_fn, poll_requests, poll_last,
                   poolVars, fetchVars, dashVars, pageVars, retryVars,
                   multiVars, pagingVars, sessionVars, compareVars>>

InitPoll ==
    /\ poll_fn \in PollFns
    /\ poll_requests = 0
    /\ poll_last = "none"
    /\ poll_ret = NoOutcome
    /\ PoolIdle
    /\ FetchIdle
    /\ DashIdle
    /\ PageIdle
    /\ RetryIdle
    /\ MultiIdle
    /\ SessionIdle
    /\ PagingIdle
    /\ CompareIdle

NextPoll ==
    \/ Poll
    \/ PollGiveUp

SpecPoll == InitPoll /\ [][NextPoll]_vars

----------------------------------------------------------------------------
(* Call_vs_incident.compare_with_embeddings.  Similarities are in           *)
(* hundredths, the score in tenths of a percent.                            *)

\* threshold=0.75
Threshold == 75

\* cosine similarities below and at the threshold
Similarities == {50, Threshold}

\* sim_matrix[i].max() / sim_matrix[:, j].max()
MaxOf(S) == CHOOSE x \in S : \A y \in S : y <= x

\* round(len(matches) / max(len(call_points), 1) * 100, 1)
ScoreOf(nmatches, ncall) ==
    LET d == IF ncall > 1 THEN ncall ELSE 1
    IN  (2 * 1000 * nmatches + d) \div (2 * d)

\* the function: the points are named by their positions; embedding an empty
\* list gives a one-dimensional array, for which cosine_similarity raises
compare_with_embeddings(w, c, sim) ==
    IF w = 0 \/ c = 0 THEN Raise("ValueError")
    ELSE LET matches == {i \in 1..w : MaxOf({sim[<<i, j>>] : j \in 1..c}) >= Threshold}
             extras == {i \in 1..w : ~(MaxOf({sim[<<i, j>>] : j \in 1..c}) >= Threshold)}
             missing == {j \in 1..c : MaxOf({sim[<<i, j>>] : i \in 1..w}) < Threshold}
         IN  Val([matches |-> matches, extras |-> extras, missing |-> missing,
                  score |-> ScoreOf(Cardinality(matches), c)])

\* the call
Compare ==
    /\ compare_ret = NoOutcome
    /\ compare_ret' = compare_with_embeddings(work_points, call_points, sim_matrix)
    /\ UNCHANGED <<work_points, call_points, sim_matrix,
                   poolVars, fetchVars, dashVars, pageVars, retryVars,
                   multiVars, pagingVars, pollVars, sessionVars>>

InitCompare ==
    /\ work_points \in 0..MaxPoints
    /\ call_points \in 0..MaxPoints
    /\ sim_matrix \in [(1..work_points) \X (1..call_points) -> Similarities]
    /\ compare_ret = NoOutcome
    /\ PoolIdle
    /\ FetchIdle
    /\ DashIdle
    /\ PageIdle
    /\ RetryIdle
    /\ MultiIdle
    /\ SessionIdle
    /\ PagingIdle
    /\ PollIdle

NextCompare == Compare

SpecCompare == InitCompare /\ [][NextCompare]_vars

----------------------------------------------------------------------------
(* Properties of fetch_all_sentiments *)

\* the batch, with its interleavings, ends as FetchSentiments says it does
FetchAllAsSummarised ==
    /\ pc \in {"unwinding", "raised"} => AnyRaises(call_ids, remote)
    /\ pc = "returned" =>
          /\ ~AnyRaises(call_ids, remote)
          /\ results = SentimentMap(call_ids, remote)

\* the fetch of this response counts as failed
Failed(resp) == resp.kind \in {"timeout", "http_error", "bad_json", "not_object"}

\* the (sentiment, "OK") pair a response that did not fail stands for
RealResult(resp) ==
    IF resp.kind = "ok" THEN <<resp.val, "OK">>
    ELSE IF resp.kind = "absent" THEN <<"unknown", "OK">>
    ELSE <<NoneVal, "OK">>

FailureMarker == <<"unknown", "Not found">>

HasDuplicates == Cardinality(Range(call_ids)) < Len(call_ids)

\* C1: when fetch_all_sentiments returns, the keys of the returned map are
\* exactly the distinct submitted call ids: none missing, none extra.
C1_KeysAreSubmittedIds ==
    pc = "returned" => DOMAIN results = Range(call_ids)

\* C1 witness: a list with a repeated id and two distinct ids was fetched and
\* the returned map has one entry per distinct id.
C1_Witness ==
    /\ pc = "returned"
    /\ Len(call_ids) = 3
    /\ HasDuplicates
    /\ Cardinality(DOMAIN results) = 2

\* C2 (as claimed): a failed fetch of one call id (timeout, non-2xx, malformed
\* body) is recorded as that id's result: no task ends by raising and
\* fetch_all_sentiments never raises because of a per-item failure.
C2_FetchFailureIsolated ==
    /\ \A i \in Futures : foutcome[i].tag # "raise"
    /\ pc \notin {"unwinding", "raised"}

\* C3 (as claimed): when the fetch fails for the ids of a subset S and
\* succeeds for the rest, the batch ends by returning a map that holds the
\* failure marker for every id of S and the real result for every other id.
C3_FailedSubsetMarked ==
    pc \in Terminal =>
        /\ pc = "returned"
        /\ \A id \in Range(call_ids) :
              /\ id \in DOMAIN results
              /\ results[id] = IF Failed(remote[id]) THEN FailureMarker
                                ELSE RealResult(remote[id])

\* C4: at no time do more tasks run than the pool has workers.
C4_ConcurrencyBounded ==
    /\ max_workers \in PoolLimits
    /\ Cardinality(InState("running")) <= max_workers

\* C4 witness: the pool is saturated: as many tasks run as there are workers
\* while a further task waits in the queue.
C4_Witness ==
    /\ Cardinality(InState("running")) = max_workers
    /\ InState("pending") # {}

\* C5 (as claimed): a started batch eventually returns with a result recorded
\* for every submitted identifier.
C5_BatchCompletes ==
    (pc \in {"submit", "collect"}) ~>
        (pc = "returned" /\ DOMAIN results = Range(call_ids))

\* C8: the second of two invocations with the same call ids and the same
\* remote responses ends with the same outcome as the first: the same
\* key-to-value content, whatever the interleaving of either run.
C8_SecondRunSameOutcome ==
    (run = "second" /\ pc \in Terminal) => Outcome = prev

\* C8 witness: a second invocation returned a map with two entries, one of
\* them a failure marker, after a first invocation that returned one too.
C8_Witness ==
    /\ run = "second"
    /\ pc = "returned"
    /\ prev.kind = "returned"
    /\ Cardinality(DOMAIN results) = 2
    /\ \E id \in DOMAIN results : results[id] = FailureMarker

\* C9: with an empty list of call ids no request is issued, nothing is
\* raised and the map returned is empty.
C9_EmptyInput ==
    (call_ids = <<>> /\ run # "none") =>
        /\ calls_made = 0
        /\ pc \in {"collect", "returned"}
        /\ results = EmptyMap

\* C9 witness: fetch_all_sentiments returned for an empty list.
C9_Witness ==
    /\ call_ids = <<>>
    /\ pc = "returned"

\* C10: run with a pool larger than the list, after a run with a pool as
\* large as the list, the batch fetches every item and ends with the same
\* outcome.
C10_LargerLimitSameResult ==
    (run = "second" /\ pc \in Terminal /\ limits[1] = Len(call_ids)
        /\ limits[2] > Len(call_ids)) =>
        /\ Outcome = prev
        /\ calls_made = Len(call_ids)
        /\ \A i \in Futures : foutcome[i].tag # "none"

\* C10 witness: three ids fetched with a pool of three and then with a larger
\* pool, both runs returning a map.
C10_Witness ==
    /\ run = "second"
    /\ pc = "returned"
    /\ limits[1] = Len(call_ids)
    /\ limits[2] > Len(call_ids)
    /\ Len(call_ids) = 3
    /\ results # EmptyMap

\* under FairSpec every started batch ends, by returning or by raising
BatchTerminates == (pc \in {"submit", "collect", "unwinding"}) ~> (pc \in Terminal)

\* every worker thread has ended: no task queued, none running, none waiting
\* to be collected
PoolDrained ==
    /\ InState("yielded") = Futures
    /\ ~ENABLED WorkerStart
    /\ \A i \in Futures : ~ENABLED WorkerFinish(i) /\ ~ENABLED Collect(i)

\* C13: when fetch_all_sentiments has returned, every submitted id was claimed
\* by a worker (one request per id), no fetch is in flight and no step of a
\* worker or of the collecting loop that could touch the map is left.
C13_DrainedOnReturn ==
    pc = "returned" => (calls_made = Len(call_ids) /\ PoolDrained)

\* C13 witness: three ids went through a pool of one worker and the map was
\* returned.
C13_Witness ==
    /\ pc = "returned"
    /\ Len(call_ids) = 3
    /\ max_workers = 1
    /\ calls_made = 3

\* every task of the batch was started and ran to its end
AllFetchesRan ==
    /\ calls_made = Len(call_ids)
    /\ \A i \in Futures : fstate[i] \in {"done", "yielded"} /\ foutcome[i] # NoOutcome

\* C14: no task is cancelled: a submitted batch ends, by returning or by
\* raising, and it never ends before every submitted fetch was started and
\* ran to completion, also when a task's exception is propagating.
C14_NoCancellation ==
    /\ [](pc \in Terminal => AllFetchesRan)
    /\ (pc \in {"submit", "collect", "unwinding"}) ~> (pc \in Terminal /\ AllFetchesRan)

\* C14 witness: with one worker the first task raised and was the only one
\* collected; the two tasks queued behind it still ran to completion before
\* the exception left the batch.
C14_Witness ==
    /\ pc = "raised"
    /\ max_workers = 1
    /\ Len(call_ids) = 3
    /\ fstate = <<"yielded", "done", "done">>
    /\ foutcome[1].tag = "raise"
    /\ AllFetchesRan

\* the steps of one work item: queued, in flight, completed, handed to the
\* collecting loop
LinearSteps == {<<"unsubmitted", "pending">>, <<"pending", "running">>,
                <<"running", "done">>, <<"done", "yielded">>}

\* C15: a work item only moves forward, one step at a time, through
\* pending -> in flight -> completed (a new invocation submits it afresh);
\* one request is issued per item that left the queue, so no item is fetched
\* twice in a submission.
C15_LinearLifecycle ==
    [][/\ \A i \in Futures :
            \/ fstate'[i] = fstate[i]
            \/ <<fstate[i], fstate'[i]>> \in LinearSteps
            \/ run' # run /\ fstate'[i] = "unsubmitted"
       /\ calls_made' = Cardinality({i \in Futures :
                            fstate'[i] \in {"running", "done", "yielded"}})]_vars

\* C15 witness: in a second invocation three items, one of them with a failed
\* fetch, have gone through every state.
C15_Witness ==
    /\ run = "second"
    /\ pc = "returned"
    /\ Len(call_ids) = 3
    /\ calls_made = 3
    /\ \E id \in DOMAIN results : results[id] = FailureMarker

\* the futures of call id k that the collecting loop stored
Stored(k) == {i \in Futures : /\ call_ids[i] = k
                               /\ fstate[i] = "yielded"
                               /\ foutcome[i].tag = "return"}

----------------------------------------------------------------------------
(* Properties of the per-call fetch functions *)

\* the values a fetch function uses for "not available"
Sentinels(f) ==
    CASE f = "Agents_dashboard.get_sentiment" ->
            {<<"unknown", "OK">>, <<"unknown", "Not found">>}
      [] f = "Day_wise_analyzer.fetch_sentiment" -> {"Unknown", "Not Found"}
      [] f = "No_Sentiments_No_Summary.fetch_sentiment" -> {NoneVal}
      [] f = "No_Sentiments_No_Summary.fetch_summary" -> {NoneVal}
      [] f = "No_Incident_Number.fetch_summary" -> {"Summary not available."}
      [] f = "Multi_Call_id_Analyzer.get_sentiment" -> {"Unavailable", "Error"}
      [] f = "Multi_Call_id_Analyzer.get_cloudtalk_summary" -> {"Unavailable"}
      [] f = "Sentiment_analyzer.get_sentiment" -> {"Unavailable"}

\* C6 (as claimed): every sentiment / summary fetch function returns its
\* "not available" sentinel, and raises nothing, when the field is absent,
\* when the status is non-2xx and when the request raises.
C6_FetchersDegradeToSentinel ==
    (fout # NoOutcome /\ fresp.kind \in {"absent", "http_error", "timeout"}) =>
        /\ fout.tag = "return"
        /\ fout.val \in Sentinels(fetcher)

----------------------------------------------------------------------------
(* Properties of the summary retry loops *)

\* the calls so far that failed
FailedAttempts == {k \in DOMAIN gemini : GeminiFails(gemini[k])}

\* C16: a retry loop calls generate_content at most max_retries times; it
\* never raises; when a call succeeds that call is the last one and its
\* stripped text is returned; when max_retries calls in a row failed the
\* fixed error string of the function is returned.
C16_BoundedRetries ==
    /\ api_calls = Len(gemini)
    /\ api_calls <= max_retries
    /\ \A k \in DOMAIN gemini : ~GeminiFails(gemini[k]) => k = Len(gemini)
    /\ retry_ret # NoOutcome =>
          /\ retry_ret.tag = "return"
          /\ IF FailedAttempts = DOMAIN gemini
             THEN /\ api_calls = max_retries
                  /\ retry_ret.val = ErrorString(variant)
             ELSE retry_ret.val = Strip(gemini[Len(gemini)])
    /\ (retry_ret = NoOutcome /\ gemini # <<>>) => FailedAttempts = DOMAIN gemini

\* C16 witness: the third call succeeded after two failures and its text came
\* back stripped.
C16_Witness ==
    /\ retry_ret = Val("Summary")
    /\ gemini = <<"raises", "blocked", " Summary\n">>

\* C17: one delay is slept per failed attempt, the last included; the delay
\* after the k-th failure (k = 0, 1, ...) is 2^k seconds plus a jitter of
\* [0, 1), never more than 30 seconds in Day_wise_analyzer, and each delay is
\* longer than the one before.
C17_ExponentialDelays ==
    /\ Len(waits) = Cardinality(FailedAttempts)
    /\ \A n \in DOMAIN waits :
          /\ waits[n] >= 10 * (2 ^ (n - 1))
          /\ waits[n] < 10 * (2 ^ (n - 1)) + 10
          /\ variant = "Day_wise_analyzer.generate_summary" => waits[n] <= 10 * CapSeconds
          /\ n > 1 => waits[n] > waits[n - 1]
    /\ (retry_ret # NoOutcome /\ retry_ret.val = ErrorString(variant)) =>
          Len(waits) = max_retries

\* C17 witness: generate_summary of Day_wise_analyzer gave up after five
\* failures and five delays, the last one of at least 16 seconds.
C17_Witness ==
    /\ variant = "Day_wise_analyzer.generate_summary"
    /\ retry_ret = Val(ErrorString(variant))
    /\ Len(waits) = 5
    /\ waits[5] >= 160

----------------------------------------------------------------------------
(* Properties of the ThreadPoolExecutor blocks of the other pages *)

\* the rows made for call id k
RowsOf(k) == {n \in DOMAIN rows : rows[n].call_id = k}

\* the calls of the list with call id k
CallsOf(k) == {i \in DOMAIN call_ids : call_ids[i] = k}

\* a row of Day_wise_analyzer carries the sentinels of what failed for its call
SentinelsFor(row, env) ==
    /\ env.sentiment.kind = "timeout" => row.sentiment = "Not Found"
    /\ env.transcript = "timeout" =>
          /\ row.transcript = "Transcript not available."
          /\ row.summary = "Summary not available."
    /\ (env.transcript = "ok" /\ env.gemini = "fails") =>
          row.summary = "Error: Gemini failed to generate summary."

\* C18: in Day_wise_analyzer no task raises because the sentiment fetch, the
\* transcript fetch or the summary generation failed (a task raises only on
\* a malformed call record); each such failure shows as a sentinel in the
\* row of its call, and when the pool loop has ended there is one row per
\* fetched call, repeated call ids included.
C18_FailuresBecomeSentinels ==
    page = "Day_wise_analyzer" =>
        /\ \A i \in Futures :
              foutcome[i].tag = "raise" => remote[call_ids[i]].notes = "null_note"
        /\ \A n \in DOMAIN rows : SentinelsFor(rows[n], remote[rows[n].call_id])
        /\ pc = "returned" =>
              /\ Len(rows) = Len(call_ids)
              /\ \A k \in Range(call_ids) :
                    Cardinality(RowsOf(k)) = Cardinality(CallsOf(k))

\* C18 witness: three calls, one id twice, were processed; the transcript
\* fetch failed for one id and the summary generation for the other, and the
\* loop ended with three rows.
C18_Witness ==
    /\ page = "Day_wise_analyzer"
    /\ pc = "returned"
    /\ Len(rows) = 3
    /\ HasDuplicates
    /\ \E n \in DOMAIN rows : rows[n].transcript = "Transcript not available."
    /\ \E n \in DOMAIN rows : rows[n].summary = "Error: Gemini failed to generate summary."
    /\ \E n \in DOMAIN rows : rows[n].sentiment = "Not Found"

\* C30: process_call of Day_wise_analyzer makes its requests in the order
\* sentiment, transcript, summary; the generative API is called exactly when
\* the transcript fetch succeeded; when it failed no summary request is made
\* and the row carries "Transcript not available." and "Summary not
\* available.".
C30_SummaryOnlyWithTranscript ==
    page = "Day_wise_analyzer" =>
        \A i \in Futures :
            foutcome[i].tag = "return" =>
                LET env == remote[call_ids[i]]
                    row == foutcome[i].val
                IN  IF env.transcript = "ok"
                    THEN /\ api_trace[i] = <<"sentiment", "transcript", "summary">>
                         /\ row.transcript # "Transcript not available."
                         /\ row.summary # "Summary not available."
                    ELSE /\ api_trace[i] = <<"sentiment", "transcript">>
                         /\ row.transcript = "Transcript not available."
                         /\ row.summary = "Summary not available."

\* C30 witness: of two calls processed, one had its transcript and was
\* summarised, the other had none and no summary request was made for it.
C30_Witness ==
    /\ page = "Day_wise_analyzer"
    /\ pc = "returned"
    /\ \E i, j \in Futures :
          /\ api_trace[i] = <<"sentiment", "transcript", "summary">>
          /\ api_trace[j] = <<"sentiment", "transcript">>
          /\ foutcome[j].val.summary = "Summary not available."

\* C19: in No_Incident_Number the loop never raises, and when it has ended
\* final_results holds every filtered item exactly once, each with the
\* summary fetched for the item's own Call ID, whatever the order in which
\* the fetches completed.
C19_EachItemOnceWithOwnSummary ==
    page = "No_Incident_Number" =>
        /\ pc \notin {"unwinding", "raised"}
        /\ pc = "returned" =>
              /\ Len(rows) = Len(call_ids)
              /\ \A i \in Futures :
                    /\ Cardinality({n \in DOMAIN rows : rows[n].item = i}) = 1
                    /\ \A n \in DOMAIN rows :
                          rows[n].item = i =>
                              /\ rows[n].call_id = call_ids[i]
                              /\ rows[n].summary =
                                    NoInc_fetch_summary(remote[call_ids[i]]).val

\* C19 witness: three items, one Call ID twice, whose fetches completed in
\* another order than submitted, with two different summaries.
C19_Witness ==
    /\ page = "No_Incident_Number"
    /\ pc = "returned"
    /\ Len(rows) = 3
    /\ HasDuplicates
    /\ rows[1].item = 3
    /\ \E n, m \in DOMAIN rows : rows[n].summary # rows[m].summary

----------------------------------------------------------------------------
(* Properties of the Multi_Call_id_Analyzer loop *)

\* the loop has ended
MultiDone == multi_i > Len(multi_ids)

\* the ids of the outcomes that are rows, in the order of the outcomes
RowIds ==
    LET rowsOnly == SelectSeq(multi_log, LAMBDA o : o.kind = "row")
    IN  [n \in DOMAIN rowsOnly |-> rowsOnly[n].call_id]

\* C20: the ids are processed one after the other in input order: the n-th
\* outcome reported (a row or an error message) is the one of the n-th id;
\* the rows are those of the ids that did not fail, in input order; when the
\* loop has ended every id has exactly one outcome, so an error for one id
\* never keeps the following ids from being processed.
C20_SequentialOneOutcomeEach ==
    /\ Len(multi_log) <= Len(multi_ids)
    /\ \A n \in DOMAIN multi_log : multi_log[n].call_id = multi_ids[n]
    /\ ~MultiDone => Len(multi_log) = multi_i - 1
    /\ MultiDone => Len(multi_log) = Len(multi_ids)
    /\ [n \in DOMAIN multi_results |-> multi_results[n].call_id] = RowIds

\* C20 witness: three ids were processed, the second one failed, and the
\* first and the third have their rows, in this order.
C20_Witness ==
    /\ MultiDone
    /\ Len(multi_ids) = 3
    /\ multi_ids[1] # multi_ids[3]
    /\ multi_log[2].kind = "error"
    /\ Len(multi_results) = 2
    /\ multi_results[1].call_id = multi_ids[1]
    /\ multi_results[2].call_id = multi_ids[3]

\* the request of the fetch function under call failed: no answer, or a
\* non-2xx status
RequestFailed == fresp.kind \in {"timeout", "http_error"}

\* C21: the pages disagree on the value for a missing sentiment:
\* No_Sentiments_No_Summary.fetch_sentiment gives None for an absent field
\* and for a failed request alike; Multi_Call_id_Analyzer.get_sentiment gives
\* "Unavailable" for an absent field and "Error" for a failed request;
\* Agents_dashboard.get_sentiment gives the sentiment "unknown" for both,
\* with status "OK" for the absent field and "Not found" for the failure.
C21_SentinelsDiffer ==
    fout # NoOutcome =>
        /\ fetcher = "No_Sentiments_No_Summary.fetch_sentiment" =>
              ((fresp.kind = "absent" \/ RequestFailed) => fout = Val(NoneVal))
        /\ fetcher = "Multi_Call_id_Analyzer.get_sentiment" =>
              /\ fresp.kind = "absent" => fout = Val("Unavailable")
              /\ RequestFailed => fout = Val("Error")
        /\ fetcher = "Agents_dashboard.get_sentiment" =>
              /\ fresp.kind = "absent" => fout = Val(<<"unknown", "OK">>)
              /\ RequestFailed => fout = Val(<<"unknown", "Not found">>)

\* C21 witness: get_sentiment of Multi_Call_id_Analyzer was called with a
\* request that failed and returned "Error".
C21_Witness ==
    /\ fetcher = "Multi_Call_id_Analyzer.get_sentiment"
    /\ RequestFailed
    /\ fout = Val("Error")

----------------------------------------------------------------------------
(* Properties of the paginated call fetch *)

\* the page of this request was the last one of its direction
LastPageOfDirection(e) == e.kind = "ok" /\ e.page >= e.page_count

RECURSIVE ConcatBatches(_)
ConcatBatches(log) ==
    IF log = <<>> THEN <<>> ELSE log[1].batch \o ConcatBatches(Tail(log))

\* C22: the pages of a direction are requested as 1, 2, 3, ... without a gap
\* or a repetition, page 1 always; a direction ends right after the first
\* page whose number is >= the pageCount of its response (1 when absent);
\* the next direction starts only then, at page 1, incoming before outgoing;
\* the list returned is the concatenation of the pages in request order.
C22_PagesInOrder ==
    /\ paging_ret # NoOutcome => page_log # <<>>
    /\ \A n \in DOMAIN page_log :
          LET e == page_log[n] IN
          IF n = 1
          THEN e.page = 1 /\ e.direction = Directions(paging_fn)[1]
          ELSE LET b == page_log[n - 1] IN
               /\ b.kind = "ok"
               /\ IF LastPageOfDirection(b)
                  THEN /\ e.page = 1
                       /\ b.direction = "incoming"
                       /\ e.direction = "outgoing"
                  ELSE /\ e.page = b.page + 1
                       /\ e.direction = b.direction
    /\ (paging_ret # NoOutcome /\ paging_ret.tag = "return") =>
          LET last == page_log[Len(page_log)] IN
          /\ LastPageOfDirection(last)
          /\ last.direction = Directions(paging_fn)[Len(Directions(paging_fn))]
          /\ paging_ret.val = ConcatBatches(page_log)

\* C22 witness: fetch_calls_all_types returned after two pages of incoming
\* calls and two pages of outgoing calls, with calls of both directions.
C22_Witness ==
    /\ paging_ret # NoOutcome
    /\ paging_ret.tag = "return"
    /\ Len(page_log) = 4
    /\ page_log[2].direction = "incoming"
    /\ page_log[3].direction = "outgoing"
    /\ Len(paging_ret.val) >= 3

\* C23: a page request that fails is the last request made; the fetch then
\* raises the exception of that request and returns nothing, whatever was
\* collected from earlier pages; a fetch that returns had no failed page.
C23_NoPartialResult ==
    /\ \A n \in DOMAIN page_log :
          page_log[n].kind # "ok" =>
              /\ n = Len(page_log)
              /\ paging_ret # NoOutcome
              /\ paging_ret.tag = "raise"
    /\ (paging_ret # NoOutcome /\ paging_ret.tag = "raise") =>
          page_log[Len(page_log)].kind # "ok"

\* C23 witness: the second page of the outgoing calls failed after pages
\* with calls had been collected, and the fetch raised.
C23_Witness ==
    /\ paging_ret # NoOutcome
    /\ paging_ret.tag = "raise"
    /\ all_calls # <<>>
    /\ page_log[Len(page_log)].direction = "outgoing"
    /\ page_log[Len(page_log)].page = 2
    /\ page_log[Len(page_log)].kind = "http_error"

----------------------------------------------------------------------------
(* Properties of poll_export_status *)

\* the last response has status 200 and holds a sys_id
LastQualifies ==
    /\ poll_requests > 0
    /\ poll_last.status = 200
    /\ poll_last.sys_id \in {"0a1b", "2c3d"}

\* C24: poll_export_status makes at most 20 requests; as long as it goes on
\* no response so far had status 200 together with a sys_id; it returns the
\* sys_id of the first response that has, and then makes no further request;
\* it raises "Failed to extract sys_id." only after 20 responses of which
\* none had, and returns nothing then.
C24_BoundedPolling ==
    /\ poll_requests <= PollAttempts
    /\ poll_ret = NoOutcome => ~LastQualifies
    /\ poll_ret # NoOutcome =>
          /\ ~ENABLED Poll
          /\ poll_ret.tag = "return" => (LastQualifies /\ poll_ret.val = poll_last.sys_id)
          /\ LastQualifies => poll_ret.tag = "return"
          /\ poll_ret = Raise("Failed to extract sys_id.") =>
                (poll_requests = PollAttempts /\ ~LastQualifies)
          /\ (poll_ret.tag = "raise" /\ ~poll_last.failed) =>
                poll_ret = Raise("Failed to extract sys_id.")

\* C24 witness: the twentieth response was the first with status 200 and a
\* sys_id, and that sys_id was returned.
C24_Witness ==
    /\ poll_requests = 20
    /\ poll_ret = Val("2c3d")

----------------------------------------------------------------------------
(* Properties of compare_with_embeddings *)

\* what compare_with_embeddings returned
Compared == compare_ret # NoOutcome /\ compare_ret.tag = "return"

\* C29 (as claimed): whenever compare_with_embeddings returns, every
\* work-note point is in exactly one of matches (some call point is similar
\* to it at the threshold or above) and extras; a call point is in missing
\* exactly when no work-note point reaches the threshold for it; the score
\* lies between 0 and 100 (0 and 1000 tenths of a percent).
C29_PartitionAndScore ==
    Compared =>
           LET r == compare_ret.val IN
           /\ r.matches \cup r.extras = 1..work_points
           /\ r.matches \cap r.extras = {}
           /\ \A i \in 1..work_points :
                 i \in r.matches <=>
                     \E j \in 1..call_points : sim_matrix[<<i, j>>] >= Threshold
           /\ \A j \in 1..call_points :
                 j \in r.missing <=>
                     \A i \in 1..work_points : sim_matrix[<<i, j>>] < Threshold
           /\ r.score >= 0
           /\ r.score <= 1000

----------------------------------------------------------------------------
(* Properties of the dashboard aggregation *)

\* the calls the aggregation loop has been through
Processed == 1..(agg_i - 1)

KeyOf(i) == <<call_info_map[call_ids[i]].date, call_info_map[call_ids[i]].agent_name>>

SentimentOf(i) == sentiment_results[call_ids[i]][1]

StatusOf(i) == sentiment_results[call_ids[i]][2]

\* the processed calls of a row whose sentiment was fetched and reads `low`
FetchedAs(key, low) ==
    {i \in Processed : /\ KeyOf(i) = key
                       /\ StatusOf(i) = "OK"
                       /\ Lower(SentimentOf(i)) = low}

\* C7: a call with status "Not found" is counted neither in the Negative nor
\* in the Positive column of its (date, agent) row, which count the calls
\* whose sentiment was fetched, and it is listed in
\* sentiment_not_found_calls.
C7_NotFoundNeverCounted ==
    /\ \A key \in DOMAIN daily_summary :
          /\ daily_summary[key].negative = Cardinality(FetchedAs(key, "negative"))
          /\ daily_summary[key].positive = Cardinality(FetchedAs(key, "positive"))
    /\ \A i \in Processed :
          StatusOf(i) = "Not found" =>
              \E j \in DOMAIN sentiment_not_found_calls :
                  sentiment_not_found_calls[j] =
                      [call_id |-> call_ids[i], agent_name |-> KeyOf(i)[2],
                       date |-> KeyOf(i)[1]]

\* what get_sentiment gives for the call at position i of the list
FetchOf(i) == get_sentiment(remote[call_ids[i]])

\* the positions of the list that belong to a row and read `low`
\* ("neutral": neither positive nor negative)
InputCalls(key, low) ==
    {i \in DOMAIN call_ids :
        /\ KeyOf(i) = key
        /\ LET l == Lower(FetchOf(i).sentiment) IN
           IF low \in {"positive", "negative"} THEN l = low
           ELSE l \notin {"positive", "negative"}}

\* the calls of the list whose fetch failed, in the order of the list
InputNotFound ==
    LET idx == SelectSeq([i \in DOMAIN call_ids |-> i],
                         LAMBDA i : FetchOf(i).status = "Not found")
    IN  [j \in DOMAIN idx |->
            [call_id |-> call_ids[idx[j]], agent_name |-> KeyOf(idx[j])[2],
             date |-> KeyOf(idx[j])[1]]]

\* the inputs for which the handler ends in its except clause: a task of the
\* batch raises, or a sentiment is null (None.lower())
HandlerFails ==
    \/ AnyRaises(call_ids, remote)
    \/ \E i \in DOMAIN call_ids : FetchOf(i).sentiment = NoneVal

\* C11: what the handler computes after fetch_all_sentiments is a function of
\* the list of calls and of the remote responses alone, whatever the order in
\* which the fetches complete: it fails or not by the inputs, and when it
\* does not, each (date, agent) row counts the calls of the list that belong
\* to it (total, positive, negative, neutral) and the not-found list holds
\* the failed calls in list order.
C11_OrderIndependent ==
    /\ dash_pc = "error" => HandlerFails
    /\ dash_pc = "aggregated" =>
          /\ ~HandlerFails
          /\ DOMAIN daily_summary = {KeyOf(i) : i \in DOMAIN call_ids}
          /\ \A key \in DOMAIN daily_summary :
                /\ daily_summary[key].positive = Cardinality(InputCalls(key, "positive"))
                /\ daily_summary[key].negative = Cardinality(InputCalls(key, "negative"))
                /\ daily_summary[key].neutral = Cardinality(InputCalls(key, "neutral"))
                /\ daily_summary[key].total =
                      Cardinality({i \in DOMAIN call_ids : KeyOf(i) = key})
          /\ sentiment_not_found_calls = InputNotFound

\* C11 witness: the aggregation ended for a list whose fetches completed in
\* another order than they were submitted in, with a failed fetch among them.
C11_Witness ==
    /\ dash_pc = "aggregated"
    /\ Len(call_ids) = 3
    /\ call_ids[1] = "A"
    /\ key_order = <<"B", "A">>
    /\ Len(sentiment_not_found_calls) >= 1

\* C7 witness: the aggregation ended with a row that holds both a call whose
\* sentiment was not found and a call fetched as negative.
C7_Witness ==
    /\ dash_pc = "aggregated"
    /\ \E i, j \in Processed :
          /\ StatusOf(i) = "Not found"
          /\ StatusOf(j) = "OK"
          /\ Lower(SentimentOf(j)) = "negative"
          /\ KeyOf(i) = KeyOf(j)
          /\ daily_summary[KeyOf(i)].negative = 1
          /\ daily_summary[KeyOf(i)].neutral = 1
    /\ Len(sentiment_not_found_calls) = 1

\* the sum of the totals of all (date, agent) entries
SumOfTotals ==
    LET RECURSIVE Sum(_)
        Sum(keys) == IF keys = {} THEN 0
                     ELSE LET k == CHOOSE x \in keys : TRUE
                          IN  daily_summary[k].total + Sum(keys \ {k})
    IN  Sum(DOMAIN daily_summary)

\* the calls of the fetched list that have an id, an agent and a started_at
PassedFilter ==
    {i \in DOMAIN calls :
        calls[i].id # "" /\ calls[i].agent # "" /\ calls[i].started_at # ""}

\* C27: after any number of processed calls every (date, agent) entry has
\* total = positive + negative + neutral and the totals add up to the number
\* of calls processed; when the loop has ended that is the number of calls
\* that passed the id / agent / started_at filter.
C27_TotalsAddUp ==
    /\ \A key \in DOMAIN daily_summary :
          daily_summary[key].total =
              daily_summary[key].positive + daily_summary[key].negative
                  + daily_summary[key].neutral
    /\ agg_i >= 1 => SumOfTotals = agg_i - 1
    /\ dash_pc \in {"aggregated", "built"} => SumOfTotals = Cardinality(PassedFilter)

\* C27 witness: the loop ended for a list of three calls of which one was
\* filtered out and the two others, one of them neutral, fell in one entry.
C27_Witness ==
    /\ dash_pc = "aggregated"
    /\ Len(calls) = 3
    /\ Cardinality(PassedFilter) = 2
    /\ \E key \in DOMAIN daily_summary :
          daily_summary[key].total = 2 /\ daily_summary[key].neutral = 1

\* the rows of the summary table for a date
RowsFor(date) == {i \in DOMAIN built.val.df : built.val.df[i].Date = date}

\* C28: in the table built from the summary, every date of the summary has
\* exactly one row flagged Top Agent, and no agent of that date has more
\* positive calls than the flagged one.
C28_OneTopAgentPerDate ==
    built.tag = "return" =>
        \A key \in DOMAIN daily_summary :
            \E i \in RowsFor(key[1]) :
                /\ built.val.df[i].Top = "Yes"
                /\ \A j \in RowsFor(key[1]) :
                      /\ j # i => built.val.df[j].Top # "Yes"
                      /\ built.val.df[j].Positive <= built.val.df[i].Positive

\* C28 witness: a date with two agents that have one positive call each, so
\* that the flag has to break a tie, and one row is flagged.
C28_Witness ==
    /\ built.tag = "return"
    /\ \E i, j \in DOMAIN built.val.df :
          /\ i # j
          /\ built.val.df[i].Date = built.val.df[j].Date
          /\ built.val.df[i].Positive = 1
          /\ built.val.df[j].Positive = 1
          /\ built.val.df[i].Top = "Yes"
          /\ built.val.df[j].Top = ""

\* C25: whenever generated is True the three tables are set, so the render
\* section never reads an unset table; and generated, once True, stays True.
C25_GeneratedImpliesTables ==
    /\ [](/\ session_state["generated"] => TableKeys \subseteq DOMAIN session_state
          /\ rendered.shown.tag # "crash")
    /\ [][session_state["generated"] => session_state'["generated"]]_vars

\* C25 witness: a second successful run has replaced the first table only,
\* while generated is True from the first run.
C25_Witness ==
    /\ dash_pc = "stored_1"
    /\ session_before["generated"]
    /\ session_state["generated"]
    /\ session_state["df"] # session_before["df"]
    /\ rendered.shown.tag = "tables"

\* C26: a run of the handler that ends in its except clause or finds no
\* calls leaves the session state as it was when the button was pressed, and
\* the render section of that run shows what that state held.
C26_FailedRunKeepsDashboard ==
    /\ [](dash_pc \in {"error", "no_calls"} => session_state = session_before)
    /\ [][(dash_pc \in {"error", "no_calls"} /\ dash_pc' = "idle") =>
              (rendered'.shown = Shown(session_before))]_vars

\* C26 witness: a run failed in a session that had a dashboard, and the
\* render section showed that dashboard again.
C26_Witness ==
    /\ rendered.after = "error"
    /\ dash_pc = "idle"
    /\ session_state["generated"]
    /\ rendered.shown.tag = "tables"
    /\ rendered.shown.df = session_state["df"]

====
